---- MODULE Spec2Model ----
(***************************************************************************)
(* Model of the annotation-merge / report-parse / category-combination /   *)
(* multiple-testing core of 1.Scripts/LDSC/ldsc_analysis_system.py (and    *)
(* the two stand-alone result extractors run_correct_ldsc_single.py and    *)
(* run_remaining_ldsc.py).                                                 *)
(*                                                                         *)
(* Column names are sequences of one-character strings, so that the        *)
(* case-insensitive substring test of _merge_annotations is computed the   *)
(* way the code computes it.  A data frame is a record                      *)
(* [columns |-> sequence of names, rows |-> sequence of rows], a row being *)
(* a sequence of integer cells aligned with the columns.  NaN is the cell  *)
(* pandas leaves on an unmatched left-join row.                            *)
(***************************************************************************)
EXTENDS Integers, Sequences, FiniteSets, TLC

VARIABLES
    baseline_file,   \* contents of baselineLD.<chr>.annot.gz (input of a merge)
    enhancer_file,   \* contents of <dataset>.<chr>.annot.gz (input of a merge)
    baseline_df,     \* the background frame after conflict removal
    removal,         \* which removal mechanism fired: "none", "name", "positional"
    output_file,     \* the combined annotation file written by the merge
    merge_result,    \* return value of _merge_annotations: "none" before a call
    ldsc_results,    \* dataset name -> parsed results, in insertion order
    results_df,      \* the frame aggregate_results builds and saves
    phase,           \* "collecting" while datasets are analysed, then "aggregated"
    log_content,     \* the regression report: a sequence of lines, each a sequence of words
    parser,          \* the extractor that read the report: "none" before a call
    parsed,          \* what the extractor returned
    results_file,    \* the regression results table read by the combiner: a sequence of lines
    weighted_result, \* what _calculate_celltype_weighted_enrichment returned
    report_exists,   \* whether <dataset>_h2.log is on disk
    returncode,      \* the return code of the regression subprocess
    h2_history,      \* what the successive calls of _run_baseline_ldsc_regression returned
    loop,            \* the function that analyses or loads the datasets of the batch
    datasets,        \* the datasets of the batch: name, files on disk, outcome of the regression
    processed,       \* number of datasets the loop has gone through
    error_log,       \* the dataset names written by logger.error, in order
    combined_annotations, \* what the successive runs of the chromosome step recorded as combined file
    parse_history    \* what the successive calls of _parse_ldsc_results returned
merge_vars == <<baseline_file, enhancer_file, baseline_df, removal, output_file, merge_result>>
batch_vars == <<ldsc_results, results_df, phase>>
parse_vars == <<log_content, parser, parsed>>
combine_vars == <<results_file, weighted_result>>
regress_vars == <<report_exists, returncode, h2_history>>
loop_vars == <<loop, datasets, processed, error_log>>
rerun_vars == <<combined_annotations, parse_history>>
pipeline_vars == <<regress_vars, loop_vars, rerun_vars>>
vars == <<merge_vars, batch_vars, parse_vars, combine_vars, pipeline_vars>>

----------------------------------------------------------------------------
(* Bounds *)
MaxBgRows == 2
MaxAddRows == 2
MaxDatasets == 8

----------------------------------------------------------------------------
(* Generic helpers *)
Range(s) == {s[i] : i \in 1..Len(s)}

NaN == 0 - 1

UpperCase == <<"A","B","C","D","E","F","G","H","I","J","K","L","M",
               "N","O","P","Q","R","S","T","U","V","W","X","Y","Z">>
LowerCase == <<"a","b","c","d","e","f","g","h","i","j","k","l","m",
               "n","o","p","q","r","s","t","u","v","w","x","y","z">>

\* str.lower() on one character
LowerChar(ch) ==
    IF \E i \in 1..26 : UpperCase[i] = ch
    THEN LowerCase[CHOOSE i \in 1..26 : UpperCase[i] = ch]
    ELSE ch

\* str.lower()
Lower(name) == [i \in 1..Len(name) |-> LowerChar(name[i])]

\* Python's  sub in s  for strings
Contains(sub, s) ==
    \E off \in 0..(Len(s) - Len(sub)) :
        \A j \in 1..Len(sub) : s[off + j] = sub[j]

----------------------------------------------------------------------------
(* Column names used by _merge_annotations *)
CHR == <<"C","H","R">>
BP  == <<"B","P">>
SNP == <<"S","N","P">>
CM  == <<"C","M">>

\* ['CHR', 'BP', 'SNP', 'CM']
CoordinateColumns == {CHR, BP, SNP, CM}
\* on=['CHR', 'BP', 'SNP']
KeyColumns == <<CHR, BP, SNP>>

\* ['brain', 'neuro', 'h3k27ac', 'h3k4me1', 'dnase']
brain_terms == { <<"b","r","a","i","n">>,
                 <<"n","e","u","r","o">>,
                 <<"h","3","k","2","7","a","c">>,
                 <<"h","3","k","4","m","e","1">>,
                 <<"d","n","a","s","e">> }

\* brain_indices (0-based column positions)
brain_indices == <<15, 16, 17, 18, 19, 20, 25, 26, 27, 28, 45, 46, 47, 48>>

----------------------------------------------------------------------------
(* Data-frame operations (pandas) *)
NoFrame == [columns |-> <<>>, rows |-> <<>>]

HasCol(cols, name) == \E i \in 1..Len(cols) : cols[i] = name
ColIndex(cols, name) == CHOOSE i \in 1..Len(cols) : cols[i] = name

\* df[names]
SelectCols(df, names) ==
    [columns |-> names,
     rows    |-> [r \in 1..Len(df.rows) |->
                    [j \in 1..Len(names) |-> df.rows[r][ColIndex(df.columns, names[j])]]]]

\* df.drop(columns=names)
DropCols(df, names) ==
    SelectCols(df, SelectSeq(df.columns, LAMBDA c : c \notin Range(names)))

\* key of a row on ['CHR', 'BP', 'SNP']
RowKey(df, r) == [k \in 1..3 |-> df.rows[r][ColIndex(df.columns, KeyColumns[k])]]

\* the right frame's columns put in front of the left frame's
merge_columns_right_first(left, right) ==
    SelectSeq(right.columns, LAMBDA c : c \notin Range(KeyColumns)) \o left.columns

\* how='left' merge on KeyColumns: left columns first, then the right frame's
\* non-key columns; a non-key name present on both sides gets _x / _y
merge_columns(left, right) ==
    LET rnonkey == SelectSeq(right.columns, LAMBDA c : c \notin Range(KeyColumns))
        overlap == (Range(left.columns) \ Range(KeyColumns)) \cap Range(rnonkey)
    IN  [i \in 1..Len(left.columns) |->
            IF left.columns[i] \in overlap THEN left.columns[i] \o <<"_", "x">>
                                           ELSE left.columns[i]]
        \o
        [i \in 1..Len(rnonkey) |->
            IF rnonkey[i] \in overlap THEN rnonkey[i] \o <<"_", "y">>
                                      ELSE rnonkey[i]]

\* cells of the right frame's non-key columns in row j
right_cells(right, j) ==
    LET rnonkey == SelectSeq(right.columns, LAMBDA c : c \notin Range(KeyColumns))
    IN  [k \in 1..Len(rnonkey) |-> right.rows[j][ColIndex(right.columns, rnonkey[k])]]

\* rows of the left join from left row i on: every left row is kept, once per
\* matching right row (in right order), or once with NaN cells when none matches
\* an inner join: a left row without a match is dropped
RECURSIVE merge_rows_inner(_, _, _)
merge_rows_inner(left, right, i) ==
    IF i > Len(left.rows) THEN <<>>
    ELSE LET key     == RowKey(left, i)
             matches == SelectSeq([j \in 1..Len(right.rows) |-> j],
                                  LAMBDA j : RowKey(right, j) = key)
             out     == [m \in 1..Len(matches) |->
                            left.rows[i] \o right_cells(right, matches[m])]
         IN  out \o merge_rows_inner(left, right, i + 1)

RECURSIVE merge_rows(_, _, _)
merge_rows(left, right, i) ==
    IF i > Len(left.rows) THEN <<>>
    ELSE LET key     == RowKey(left, i)
             matches == SelectSeq([j \in 1..Len(right.rows) |-> j],
                                  LAMBDA j : RowKey(right, j) = key)
             nright  == Len(right.columns) - Len(KeyColumns)
             out     == IF matches = <<>>
                        THEN << left.rows[i] \o [k \in 1..nright |-> NaN] >>
                        ELSE [m \in 1..Len(matches) |->
                                left.rows[i] \o right_cells(right, matches[m])]
         IN  out \o merge_rows(left, right, i + 1)

\* baseline_df.merge(right, on=['CHR', 'BP', 'SNP'], how='left')
left_merge(left, right) ==
    [columns |-> merge_columns(left, right),
     rows    |-> merge_rows(left, right, 1)]

\* the fill forgotten: NaN cells stay
fillna_skipped(df, col) == df

\* merged_df[col] = merged_df[col].fillna(0)
fillna(df, col) ==
    LET c == ColIndex(df.columns, col)
    IN  [df EXCEPT !.rows =
            [r \in 1..Len(df.rows) |->
                [k \in 1..Len(df.columns) |->
                    IF k = c /\ df.rows[r][k] = NaN THEN 0 ELSE df.rows[r][k]]]]

RECURSIVE fillna_all(_, _, _)
fillna_all(df, cols, i) ==
    IF i > Len(cols) THEN df
    ELSE fillna_all(fillna(df, cols[i]), cols, i + 1)

----------------------------------------------------------------------------
(* LDSCPipeline._merge_annotations *)

\* the match done on the name as written, without lower()
brain_related_cols_case_sensitive(df) ==
    SelectSeq(df.columns,
              LAMBDA col : /\ \E brain_term \in brain_terms : Contains(brain_term, col)
                           /\ col \notin CoordinateColumns)

\* columns whose lower-cased name contains a brain term, coordinates kept
brain_related_cols(df) ==
    SelectSeq(df.columns,
              LAMBDA col : /\ \E brain_term \in brain_terms : Contains(brain_term, Lower(col))
                           /\ col \notin CoordinateColumns)

\* the manual removal without the coordinate-column guard
cols_to_remove_unguarded(all_cols) ==
    LET valid == SelectSeq(brain_indices, LAMBDA idx : idx < Len(all_cols))
    IN  [k \in 1..Len(valid) |-> all_cols[valid[k] + 1]]

\* manual removal: the columns at brain_indices that exist and are not coordinates
cols_to_remove(all_cols) ==
    LET valid == SelectSeq(brain_indices,
                           LAMBDA idx : /\ idx < Len(all_cols)
                                        /\ all_cols[idx + 1] \notin CoordinateColumns)
    IN  [k \in 1..Len(valid) |-> all_cols[valid[k] + 1]]

\* the if brain_related_cols: ... else: ... block
remove_conflicts(df) ==
    LET brain == brain_related_cols(df)
        manual == cols_to_remove(df.columns)
    IN  IF brain # <<>>
        THEN [mechanism |-> "name", df |-> DropCols(df, brain)]
        ELSE [mechanism |-> "positional",
              df |-> IF manual # <<>> THEN DropCols(df, manual) ELSE df]

\* [col for col in enhancer_df.columns if col not in ['CHR', 'BP', 'SNP', 'CM']]
enhancer_cols(enhancer_df) ==
    SelectSeq(enhancer_df.columns, LAMBDA col : col \notin CoordinateColumns)

\* the whole try block: the frame written and the value returned; a KeyError
\* (a key column missing, or an enhancer column renamed by the merge suffixes)
\* is caught and turns into return False with nothing written
\* final_categories = len(merged_df.columns) - 4, which is logged
final_categories(merged_df) == Len(merged_df.columns) - 4

merge_outcome(bfile, efile) ==
    LET rc      == remove_conflicts(bfile)
        ecols   == enhancer_cols(efile)
        keyed   == \A k \in 1..Len(KeyColumns) :
                       /\ HasCol(rc.df.columns, KeyColumns[k])
                       /\ HasCol(efile.columns, KeyColumns[k])
        merged  == left_merge(rc.df, SelectCols(efile, KeyColumns \o ecols))
        ok      == keyed /\ \A i \in 1..Len(ecols) : HasCol(merged.columns, ecols[i])
    IN  [baseline_df |-> rc.df,
         removal     |-> rc.mechanism,
         result      |-> IF ok THEN "True" ELSE "False",
         output_file |-> IF ok THEN fillna_all(merged, ecols, 1) ELSE NoFrame]

merge_annotations ==
    /\ merge_result = "none"
    /\ LET out == merge_outcome(baseline_file, enhancer_file)
       IN  /\ baseline_df'  = out.baseline_df
           /\ removal'      = out.removal
           /\ output_file'  = out.output_file
           /\ merge_result' = out.result
    /\ UNCHANGED <<baseline_file, enhancer_file>>
    /\ UNCHANGED <<batch_vars, parse_vars, combine_vars, pipeline_vars>>

----------------------------------------------------------------------------
(* LDSCResultsAggregator.aggregate_results: multiple-testing correction.   *)
(* p-values are integers in units of 1e-5; a quotient such as alpha / n is  *)
(* kept as a fraction [num, den] and compared by cross-multiplication.      *)

\* alpha = 0.05
alpha == 5000
\* fillna(1.0)
p_one == 100000

Frac(a, b) == [num |-> a, den |-> b]
FracLess(x, y) == x.num * y.den < y.num * x.den
FracEq(x, y) == x.num * y.den = y.num * x.den

BaseColumns == {"dataset_id", "cell_type", "processing_type", "enrichment_p"}
CorrectionColumns == {"bonferroni_threshold", "bonferroni_significant",
                      "fdr_corrected_p", "fdr_significant"}

\* sorted(ps): insertion of x into an ascending sequence
RECURSIVE insert_sorted(_, _)
insert_sorted(x, srt) ==
    IF srt = <<>> THEN <<x>>
    ELSE IF x <= Head(srt) THEN <<x>> \o srt
    ELSE <<Head(srt)>> \o insert_sorted(x, Tail(srt))

RECURSIVE sort_ascending(_)
sort_ascending(ps) ==
    IF ps = <<>> THEN <<>> ELSE insert_sorted(Head(ps), sort_ascending(Tail(ps)))

\* the smaller of two fractions
FracMin(x, y) == IF FracLess(y, x) THEN y ELSE x

\* minimum of sorted[j] * m / j over the ranks j >= k
RECURSIVE bh_tail_min(_, _)
bh_tail_min(srt, k) ==
    LET m == Len(srt)
    IN  IF k = m THEN Frac(srt[m] * m, m)
        ELSE FracMin(Frac(srt[k] * m, k), bh_tail_min(srt, k + 1))

\* the p-values scaled by n / rank, accepted with any keyword and without the
\* running minimum over the higher ranks
scaled_by_rank(ps, keywords) ==
    LET srt == sort_ascending(ps)
        rank(i) == CHOOSE k \in 1..Len(srt) :
                       /\ srt[k] = ps[i]
                       /\ \A j \in 1..(k - 1) : srt[j] < ps[i]
    IN  [raised |-> FALSE,
         value  |-> [i \in 1..Len(ps) |-> Frac(ps[i] * Len(ps), rank(i))]]

\* scipy.stats.false_discovery_control(ps, *, axis=0, method='bh'): a keyword
\* the signature does not have raises TypeError; otherwise the Benjamini-
\* Hochberg adjusted p-values, in the order of ps
false_discovery_control(ps, keywords) ==
    IF ~(keywords \subseteq {"axis", "method"})
    THEN [raised |-> TRUE, value |-> <<>>]
    ELSE LET srt == sort_ascending(ps)
             rank(i) == CHOOSE k \in 1..Len(srt) :
                            /\ srt[k] = ps[i]
                            /\ \A j \in 1..(k - 1) : srt[j] < ps[i]
         IN  [raised |-> FALSE,
              value  |-> [i \in 1..Len(ps) |->
                            FracMin(bh_tail_min(srt, rank(i)), Frac(p_one, 1))]]

\* the threshold of every dataset taken as alpha itself
bonferroni_threshold_uncorrected(n) == Frac(alpha, 1)

\* bonferroni_threshold = alpha / len(results_df)
bonferroni_threshold(n) == Frac(alpha, n)

\* results_df['enrichment_p'] < bonferroni_threshold  (False on a NaN)
bonferroni_significant(p, threshold) ==
    p # NaN /\ FracLess(Frac(p, 1), threshold)

\* a missing p-value filled with 0
fill_missing_with_zero(p) == IF p = NaN THEN 0 ELSE p

\* results_df['enrichment_p'].fillna(1.0)
fill_missing(p) == IF p = NaN THEN p_one ELSE p

\* the labels looked for in a dataset name
Olig    == <<"O","l","i","g">>
Nurr    == <<"N","u","r","r">>
Pdgfra  == <<"P","d","g","f","r","a">>
Aldh1l1 == <<"A","l","d","h","1","l","1">>
cleaned == <<"c","l","e","a","n","e","d">>

\* the chain without its last branch: a name that holds no later label is
\* an oligodendrocyte
cell_type_without_default(dataset_name) ==
    IF Contains(Nurr, dataset_name) THEN "Nurr1+"
    ELSE IF Contains(Pdgfra, dataset_name) THEN "Pdgfra+"
    ELSE IF Contains(Aldh1l1, dataset_name) THEN "Aldh1l1+"
    ELSE "Oligodendrocyte"

\* the if / elif chain over  'Olig' in dataset_name, ...
cell_type(dataset_name) ==
    IF Contains(Olig, dataset_name) THEN "Oligodendrocyte"
    ELSE IF Contains(Nurr, dataset_name) THEN "Nurr1+"
    ELSE IF Contains(Pdgfra, dataset_name) THEN "Pdgfra+"
    ELSE IF Contains(Aldh1l1, dataset_name) THEN "Aldh1l1+"
    ELSE "Unknown"

\* 'Cleaned' if 'cleaned' in dataset_name else 'Unique'
processing_type(dataset_name) ==
    IF Contains(cleaned, dataset_name) THEN "Cleaned" ELSE "Unique"

\* the rows built by the loop over ldsc_results.items(); of the values read
\* with results.get(key, np.nan) the p-value is kept, and the ldsc_timestamp
\* column is left out
aggregated_data(results) ==
    [i \in 1..Len(results) |->
        [dataset_id      |-> results[i].dataset_id,
         cell_type       |-> cell_type(results[i].dataset_id),
         processing_type |-> processing_type(results[i].dataset_id),
         enrichment_p    |-> results[i].enrichment_p]]

\* the  if len(results_df) > 1  block
corrected_frame(rows) ==
    LET n         == Len(rows)
        threshold == bonferroni_threshold(n)
        p_values  == [i \in 1..n |-> fill_missing(rows[i].enrichment_p)]
        fdr       == false_discovery_control(p_values, {"alpha"})
    IN  [columns |-> BaseColumns \cup CorrectionColumns,
         rows |-> [i \in 1..n |->
            [dataset_id             |-> rows[i].dataset_id,
             cell_type              |-> rows[i].cell_type,
             processing_type        |-> rows[i].processing_type,
             enrichment_p           |-> rows[i].enrichment_p,
             bonferroni_threshold   |-> threshold,
             bonferroni_significant |-> bonferroni_significant(rows[i].enrichment_p, threshold),
             fdr_corrected_p        |-> IF fdr.raised THEN Frac(p_values[i], 1)
                                                      ELSE fdr.value[i],
             fdr_significant        |-> IF fdr.raised THEN FALSE
                                        ELSE FracLess(fdr.value[i], Frac(alpha, 1))]]]

NoResultsFrame == [columns |-> {}, rows |-> <<>>]

\* the datasets of the analysis, in the order of annotation_files
Olig_cleaned    == Olig \o <<"_">> \o cleaned
Olig_unique     == Olig \o <<"_","u","n","i","q","u","e">>
Neg_cleaned     == <<"N","e","g","_">> \o cleaned
Neg_unique      == <<"N","e","g","_","u","n","i","q","u","e">>
NeuN_cleaned    == <<"N","e","u","N","_">> \o cleaned
NeuN_unique     == <<"N","e","u","N","_","u","n","i","q","u","e">>
Nurr_cleaned    == Nurr \o <<"_">> \o cleaned
Nurr_unique     == Nurr \o <<"_","u","n","i","q","u","e">>
Pdgfra_cleaned  == Pdgfra \o <<"_">> \o cleaned
Aldh1l1_unique  == Aldh1l1 \o <<"_","u","n","i","q","u","e">>

DatasetNames ==
    << Olig_cleaned, Olig_unique, Neg_cleaned, Neg_unique, NeuN_cleaned, NeuN_unique,
       Nurr_cleaned, Nurr_unique, Pdgfra_cleaned, Aldh1l1_unique >>

\* one iteration of the dataset loop of run_partitioned_heritability that ends
\* in  all_results[dataset_name] = h2_results ; the parsed results hold a
\* p-value or none (NaN once read by results.get('enrichment_p', np.nan))
PValues == {NaN, 400, 700, 3000}

\* a dataset recorded whether or not the batch has been aggregated
record_result_after_aggregation ==
    /\ phase \in {"collecting", "aggregated"}
    /\ Len(ldsc_results) < MaxDatasets
    /\ \E p \in PValues :
          ldsc_results' = Append(ldsc_results,
                                 [dataset_id   |-> DatasetNames[Len(ldsc_results) + 1],
                                  enrichment_p |-> p])
    /\ UNCHANGED <<results_df, phase>>
    /\ UNCHANGED <<merge_vars, parse_vars, combine_vars, pipeline_vars>>

record_result ==
    /\ phase = "collecting"
    /\ Len(ldsc_results) < MaxDatasets
    /\ \E p \in PValues :
          ldsc_results' = Append(ldsc_results,
                                 [dataset_id   |-> DatasetNames[Len(ldsc_results) + 1],
                                  enrichment_p |-> p])
    /\ UNCHANGED <<results_df, phase>>
    /\ UNCHANGED <<merge_vars, parse_vars, combine_vars, pipeline_vars>>

\* called with the results of run_partitioned_heritability, or with those of
\* _load_existing_ldsc_results unless they are empty, once the loop has
\* returned
aggregate_results ==
    /\ phase = "collecting"
    /\ loop # "_run_optimized_ldsc_regression"
    /\ loop = "_load_existing_ldsc_results" => ldsc_results # <<>>
    /\ processed = Len(datasets)
    /\ LET rows == aggregated_data(ldsc_results)
       IN  results_df' = IF Len(rows) > 1
                         THEN corrected_frame(rows)
                         ELSE [columns |-> IF rows = <<>> THEN {} ELSE BaseColumns,
                               rows |-> rows]
    /\ phase' = "aggregated"
    /\ UNCHANGED ldsc_results
    /\ UNCHANGED <<merge_vars, parse_vars, combine_vars, pipeline_vars>>

BatchIdle ==
    /\ ldsc_results = <<>>
    /\ results_df = NoResultsFrame
    /\ phase = "idle"

MergeIdle ==
    /\ baseline_file = NoFrame
    /\ enhancer_file = NoFrame
    /\ baseline_df = NoFrame
    /\ removal = "none"
    /\ output_file = NoFrame
    /\ merge_result = "idle"

\* the combiner before any call
NotCalculated ==
    [returned |-> "idle", enrichment |-> Frac(0, 1), enrichment_se_squared |-> Frac(0, 1),
     enrichment_p |-> [is_none |-> TRUE, product |-> Frac(1, 1), df |-> 0],
     enhancer_categories_used |-> 0]

CombineIdle ==
    /\ results_file = <<>>
    /\ weighted_result = NotCalculated

----------------------------------------------------------------------------
(* Extraction of the cell-type enrichment from a regression report.        *)
(* A line is the sequence of its whitespace-separated words, so that        *)
(* line.split() is the line itself and line.split()[1:] its tail.  A dict   *)
(* is a function from its keys; a key that was never set is not in DOMAIN.  *)
(* Numbers are in thousandths.  Of extract_correct_results and              *)
(* extract_results the total heritability, category count, enrichment and   *)
(* coefficient fields are modelled; their proportion fields are set         *)
(* independently of these.                                                   *)

\* the numeric words that occur in the reports, with float(word) in thousandths
FloatWords == {"0.5", "1.0", "2.5", "7.25", "0.0", "-0.5", "0.01", "0.04", "0"}

float(x) ==
    CASE x = "0.5"  -> 500
      [] x = "1.0"  -> 1000
      [] x = "2.5"  -> 2500
      [] x = "7.25" -> 7250
      [] x = "0.0"  -> 0
      [] x = "-0.5" -> 0 - 500
      [] x = "0.01" -> 10
      [] x = "0.04" -> 40
      [] x = "0"    -> 0

\* LDSCPipeline._is_float
is_float(value) == value \in FloatWords

\* [float(x) for x in words if self._is_float(x)]
floats_of(words) ==
    LET kept == SelectSeq(words, is_float)
    IN  [i \in 1..Len(kept) |-> float(kept[i])]

\* line.startswith(label) for the labels of the report
starts_with(line, label) ==
    /\ Len(line) >= Len(label)
    /\ \A i \in 1..Len(label) : line[i] = label[i]

EnrichmentLabel    == <<"Enrichment:">>
EnrichmentSELabel  == <<"Enrichment", "SE:">>
CoefficientsLabel  == <<"Coefficients:">>
CoefficientSELabel == <<"Coefficient", "SE:">>
CategoriesLabel    == <<"Categories:">>

\* line.replace(label, '').strip().split()
after_label(line, label) == SubSeq(line, Len(label) + 1, Len(line))

\* index of the last line with the label, 0 when there is none: the loop
\* overwrites the variable on every match
last_line(content, label) ==
    IF \E i \in 1..Len(content) : starts_with(content[i], label)
    THEN CHOOSE i \in 1..Len(content) :
            /\ starts_with(content[i], label)
            /\ \A j \in (i + 1)..Len(content) : ~starts_with(content[j], label)
    ELSE 0

\* number of categories the first extractor requires, and the 0-based index it reads
min_enrichment_values == 98
celltype_index == 97
\* celltype_se = 0.15
default_se == 150

\* p-value of a two-sided z-test, kept as the z-score it is computed from
z_test(num, den) == [z_num |-> IF num < 0 THEN 0 - num ELSE num, z_den |-> den]

EmptyDict == [k \in {} |-> 0]

NoneResult == [returned |-> "None", results |-> EmptyDict]
Raised == [returned |-> "raise", results |-> EmptyDict]

\* enrichment_values[97]
celltype_value(values) == values[celltype_index + 1]

\* LDSCPipeline._extract_celltype_enrichment_from_log
extract_celltype_enrichment_from_log(content) ==
    LET e_i  == last_line(content, EnrichmentLabel)
        se_i == last_line(content, EnrichmentSELabel)
        c_i  == last_line(content, CoefficientsLabel)
        cs_i == last_line(content, CoefficientSELabel)
        enrichment_values    == floats_of(Tail(content[e_i]))
        enrichment_se_values == floats_of(Tail(content[se_i]))
        coeff_values         == floats_of(Tail(content[c_i]))
        coeff_se_values      == floats_of(Tail(content[cs_i]))
        celltype_enrichment  == celltype_value(enrichment_values)
        celltype_se ==
            IF se_i # 0 /\ Len(enrichment_se_values) > celltype_index
            THEN celltype_value(enrichment_se_values)
            ELSE default_se
        p_value ==
            IF celltype_se > 0 THEN z_test(celltype_enrichment - 1000, celltype_se)
            ELSE z_test(0, 1)
        celltype_coeff ==
            IF c_i # 0 /\ Len(coeff_values) > celltype_index
            THEN celltype_value(coeff_values) ELSE 0
        celltype_coeff_se ==
            IF c_i # 0 /\ cs_i # 0 /\ Len(coeff_se_values) > celltype_index
            THEN celltype_value(coeff_se_values) ELSE 0
    IN  IF e_i = 0 THEN NoneResult
        ELSE IF Len(enrichment_values) < min_enrichment_values THEN NoneResult
        ELSE [returned |-> "dict",
              results  |-> [enrichment     |-> celltype_enrichment,
                            enrichment_se  |-> celltype_se,
                            enrichment_p   |-> p_value,
                            coefficient    |-> celltype_coeff,
                            coefficient_se |-> celltype_coeff_se,
                            coefficient_p  |-> p_value]]

\* values[idx] with Python's indexing: 0-based, negative from the end
py_index(values, idx) ==
    IF idx < 0 THEN values[Len(values) + 1 + idx] ELSE values[idx + 1]

\* the lines with the label that hold at least min_len values
lines_with(content, label, min_len) ==
    SelectSeq([i \in 1..Len(content) |-> i],
              LAMBDA i : /\ starts_with(content[i], label)
                         /\ Len(after_label(content[i], label)) >= min_len)

\* a dict with the key set to value
with_key(dict, key, value) ==
    [k \in DOMAIN dict \cup {key} |-> IF k = key THEN value ELSE dict[k]]

\* the field extraction shared by extract_correct_results (min_len 98, index
\* -1) and extract_results (min_len 2, index 1): every matching
\* line sets the key, and float() of a malformed word raises ValueError
field_from_lines(acc, content, label, min_len, idx, key) ==
    LET hits == lines_with(content, label, min_len)
        word(i) == py_index(after_label(content[i], label), idx)
    IN  IF acc.error THEN acc
        ELSE IF \E k \in 1..Len(hits) : ~is_float(word(hits[k]))
        THEN [error |-> TRUE, dict |-> acc.dict]
        ELSE IF hits = <<>> THEN acc
        ELSE [error |-> FALSE,
              dict  |-> with_key(acc.dict, key, float(word(hits[Len(hits)])))]

\* None and a float, as values of a field that may hold either
None == [is_none |-> TRUE, value |-> 0]
Some(v) == [is_none |-> FALSE, value |-> v]

H2Label == <<"Total", "Observed", "scale", "h2:">>

\* the words written in parentheses, and the words [\d\.]+ matches
ParenWords == {"(0.5)", "(1.0)", "(0.0)", "(NA)"}
DigitWords == {"0.5", "1.0", "2.5", "7.25", "0.0", "0.01", "0.04", "0"}

\* word.strip('()')
strip_parens(word) ==
    CASE word = "(0.5)" -> "0.5"
      [] word = "(1.0)" -> "1.0"
      [] word = "(0.0)" -> "0.0"
      [] word = "(NA)"  -> "NA"
      [] OTHER -> word

\* the offsets at which the words of label occur in line
label_offsets(line, label) ==
    { off \in 0..(Len(line) - Len(label)) : \A j \in 1..Len(label) : line[off + j] = label[j] }

\* label in line
contains_label(line, label) == label_offsets(line, label) # {}

\* the least and the greatest member of a non-empty set of integers
Least(S) == CHOOSE x \in S : \A y \in S : x <= y
Greatest(S) == CHOOSE x \in S : \A y \in S : y <= x

\* the offsets in line at which
\* r'Total Observed scale h2: ([\d\.]+) \(([\d\.]+)\)' matches
h2_matches(line) ==
    { off \in label_offsets(line, H2Label) :
         /\ Len(line) >= off + Len(H2Label) + 2
         /\ line[off + Len(H2Label) + 1] \in DigitWords
         /\ line[off + Len(H2Label) + 2] \in ParenWords
         /\ strip_parens(line[off + Len(H2Label) + 2]) \in DigitWords }

\* re.search over the whole content: the first match sets total_h2 and total_h2_se
h2_by_search(content) ==
    LET hits == { i \in 1..Len(content) : h2_matches(content[i]) # {} }
    IN  IF hits = {} THEN EmptyDict
        ELSE LET line == content[Least(hits)]
                 at   == Least(h2_matches(line)) + Len(H2Label)
             IN  with_key(with_key(EmptyDict, "total_h2", Some(float(line[at + 1]))),
                          "total_h2_se", Some(float(strip_parens(line[at + 2]))))

\* the common body of the two stand-alone extractors
extract_with(content, min_len, idx, count_categories) ==
    LET cat_i == IF \E i \in 1..Len(content) : starts_with(content[i], CategoriesLabel)
                 THEN CHOOSE i \in 1..Len(content) :
                         /\ starts_with(content[i], CategoriesLabel)
                         /\ \A j \in 1..(i - 1) : ~starts_with(content[j], CategoriesLabel)
                 ELSE 0
        r0 == [error |-> FALSE,
               dict  |-> IF count_categories /\ cat_i # 0
                         THEN with_key(h2_by_search(content), "n_annotations",
                                       Len(after_label(content[cat_i], CategoriesLabel)))
                         ELSE h2_by_search(content)]
        r1 == field_from_lines(r0, content, EnrichmentLabel, min_len, idx, "enhancer_enrichment")
        r2 == field_from_lines(r1, content, CoefficientsLabel, min_len, idx, "enhancer_coeff")
        r3 == field_from_lines(r2, content, CoefficientSELabel, min_len, idx, "enhancer_coeff_se")
    IN  IF r3.error THEN Raised
        ELSE IF {"enhancer_coeff", "enhancer_coeff_se"} \subseteq DOMAIN r3.dict
        THEN [returned |-> "dict",
              results  |-> with_key(r3.dict, "p_value",
                                    z_test(r3.dict["enhancer_coeff"], r3.dict["enhancer_coeff_se"]))]
        ELSE [returned |-> "dict", results |-> r3.dict]

\* run_correct_ldsc_single.extract_correct_results
extract_correct_results(content) == extract_with(content, 98, 0 - 1, TRUE)

\* run_remaining_ldsc.extract_results
extract_results(content) == extract_with(content, 2, 1, FALSE)

\* the words whose lower case contains 'enhancer'
EnhancerWords == {"O_enhancer", "enhancer", "Enhancer"}

\* 'enhancer' in line.lower()
mentions_enhancer(line) == Range(line) \cap EnhancerWords # {}

\* the total-heritability block of _parse_ldsc_results: the last line that
\* holds the label; h2_part is the text between the label and the first '(',
\* se_part the text inside the parentheses or '0'; a float() that fails
\* leaves both fields None, and so does a content without the label
parse_total_h2(content) ==
    LET hits == { i \in 1..Len(content) : contains_label(content[i], H2Label) }
        unset == with_key(with_key(EmptyDict, "total_h2", None), "total_h2_se", None)
    IN  IF hits = {} THEN unset
        ELSE LET h2_line  == content[Greatest(hits)]
                 start    == Least(label_offsets(h2_line, H2Label)) + Len(H2Label)
                 rest     == SubSeq(h2_line, start + 1, Len(h2_line))
                 parens   == { k \in 1..Len(rest) : rest[k] \in ParenWords }
                 h2_part  == IF parens = {} THEN rest ELSE SubSeq(rest, 1, Least(parens) - 1)
                 se_part  == IF parens = {} THEN "0" ELSE strip_parens(rest[Least(parens)])
             IN  IF Len(h2_part) = 1 /\ is_float(h2_part[1]) /\ is_float(se_part)
                 THEN with_key(with_key(EmptyDict, "total_h2", Some(float(h2_part[1]))),
                               "total_h2_se", Some(float(se_part)))
                 ELSE unset

\* one of the two loops over the lines that hold label_word and mention an
\* enhancer: float(line.split()[1]) and float(line.split()[2].strip('()'))
\* set the value, its standard error and the p-value of z = (value - null) /
\* se; IndexError and ValueError skip the line, a zero standard error raises
\* ZeroDivisionError, which leaves the loop
RECURSIVE enhancer_lines(_, _, _, _, _, _)
enhancer_lines(content, i, acc, label_word, key, null)  ==
    IF acc.error \/ i > Len(content) THEN acc
    ELSE LET line == content[i]
         IN  IF ~(label_word \in Range(line) /\ mentions_enhancer(line))
             THEN enhancer_lines(content, i + 1, acc, label_word, key, null)
             ELSE IF Len(line) < 3 \/ ~is_float(line[2]) \/ ~is_float(strip_parens(line[3]))
             THEN enhancer_lines(content, i + 1, acc, label_word, key, null)
             ELSE IF float(strip_parens(line[3])) = 0
             THEN [error |-> TRUE, dict |-> acc.dict]
             ELSE LET value == float(line[2])
                      se    == float(strip_parens(line[3]))
                  IN  enhancer_lines(content, i + 1,
                          [error |-> FALSE,
                           dict  |-> with_key(with_key(with_key(acc.dict, key, value),
                                                       key \o "_se", se),
                                              key \o "_p", z_test(value - null, se))],
                          label_word, key, null)

\* LDSCAnalyzer._parse_ldsc_results;  except Exception: return {}
parse_ldsc_results(content) ==
    LET r0 == [error |-> FALSE, dict |-> parse_total_h2(content)]
        r1 == enhancer_lines(content, 1, r0, "Enrichment:", "enrichment", 1000)
        r2 == enhancer_lines(content, 1, r1, "Coefficient:", "coefficient", 0)
    IN  IF r2.error THEN [returned |-> "dict", results |-> EmptyDict]
        ELSE [returned |-> "dict", results |-> r2.dict]

ParseIdle ==
    /\ log_content = <<>>
    /\ parser = "idle"
    /\ parsed = NoneResult

run_extract_celltype_enrichment_from_log ==
    /\ parser = "none"
    /\ parser' = "_extract_celltype_enrichment_from_log"
    /\ parsed' = extract_celltype_enrichment_from_log(log_content)
    /\ UNCHANGED <<log_content, merge_vars, batch_vars, combine_vars, pipeline_vars>>

run_extract_correct_results ==
    /\ parser = "none"
    /\ parser' = "extract_correct_results"
    /\ parsed' = extract_correct_results(log_content)
    /\ UNCHANGED <<log_content, merge_vars, batch_vars, combine_vars, pipeline_vars>>

run_extract_results ==
    /\ parser = "none"
    /\ parser' = "extract_results"
    /\ parsed' = extract_results(log_content)
    /\ UNCHANGED <<log_content, merge_vars, batch_vars, combine_vars, pipeline_vars>>

run_parse_ldsc_results ==
    /\ parser = "none"
    /\ parser' = "_parse_ldsc_results"
    /\ parsed' = parse_ldsc_results(log_content)
    /\ UNCHANGED <<log_content, merge_vars, batch_vars, combine_vars, pipeline_vars>>

----------------------------------------------------------------------------
(* Input files of a merge *)
base      == <<"b","a","s","e">>
Brain_DHS == <<"B","r","a","i","n","_","D","H","S">>
DNase     == <<"D","N","a","s","e">>
H3K27ac   == <<"H","3","K","2","7","a","c">>
H3K4me1   == <<"H","3","K","4","m","e","1">>
Neuron    == <<"N","e","u","r","o","n">>
\* f'{dataset_name}_enhancer' for the dataset named O
O_enhancer == <<"O","_","e","n","h","a","n","c","e","r">>

\* neutral category names ca, cb, cc, ... for wide tables
Generic(n) == [i \in 1..n |-> <<"c", LowerCase[i]>>]

BaselineLayouts ==
    { <<CHR, BP, SNP, CM, base, Brain_DHS, DNase, H3K4me1, Neuron>>,
      <<CHR, BP, SNP, CM, base>>,
      <<CHR, BP, SNP, CM>> \o Generic(13),
      <<CHR, BP, SNP>> \o Generic(12) \o <<CM, base>>,
      <<CHR, BP, SNP, CM>> \o Generic(11) \o <<base, H3K27ac>> }

\* the enhancer annotation as a stand-alone table, as a table that carries a
\* brain-named category, and as AnnotationGenerator writes it (every baseline
\* column plus the new one)
EnhancerLayouts(bcols) ==
    { <<CHR, BP, SNP, CM, O_enhancer>>,
      <<CHR, BP, SNP, CM, Brain_DHS, O_enhancer>>,
      bcols \o <<O_enhancer>> }

\* (CHR, BP, SNP) of the variants of one chromosome
Keys == { <<1, 100, 1>>, <<1, 100, 2>>, <<1, 200, 1>> }

SeqsUpTo(S, n) == UNION { [1..k -> S] : k \in 0..n }

\* membership of a variant in the enhancer annotation
InEnhancer(key) == IF key[2] = 100 THEN 1 ELSE 0

\* a row with the given key, value v in the enhancer column, 1 elsewhere
MakeRow(cols, key, v) ==
    [i \in 1..Len(cols) |->
        IF cols[i] = CHR THEN key[1]
        ELSE IF cols[i] = BP THEN key[2]
        ELSE IF cols[i] = SNP THEN key[3]
        ELSE IF cols[i] = O_enhancer THEN v
        ELSE 1]

BaselineFiles ==
    { [columns |-> cols, rows |-> [r \in 1..Len(ks) |-> MakeRow(cols, ks[r], 1)]] :
        cols \in BaselineLayouts, ks \in SeqsUpTo(Keys, MaxBgRows) }

\* the chromosome of the background tables (that of Keys) and another one
Chromosomes == {1, 2}

\* the key of a variant at the same position of chromosome c
OnChromosome(key, c) == <<c, key[2], key[3]>>

EnhancerFiles(bcols) ==
    { [columns |-> cols,
       rows |-> [r \in 1..Len(ks) |->
                    MakeRow(cols, OnChromosome(ks[r], c), InEnhancer(ks[r]))]] :
        cols \in EnhancerLayouts(bcols), ks \in SeqsUpTo(Keys, MaxAddRows), c \in Chromosomes }

\* the regression step before any call
RegressIdle ==
    /\ report_exists = FALSE
    /\ returncode = 0
    /\ h2_history = <<>>

\* no batch to analyse
LoopIdle ==
    /\ loop = "none"
    /\ datasets = <<>>
    /\ processed = 0
    /\ error_log = <<>>

\* no run repeated
RerunIdle ==
    /\ combined_annotations = <<>>
    /\ parse_history = <<>>

PipelineIdle == RegressIdle /\ LoopIdle /\ RerunIdle

InitMerge ==
    /\ baseline_file \in BaselineFiles
    /\ enhancer_file \in EnhancerFiles(baseline_file.columns)
    /\ baseline_df = NoFrame
    /\ removal = "none"
    /\ output_file = NoFrame
    /\ merge_result = "none"
    /\ BatchIdle
    /\ ParseIdle
    /\ CombineIdle
    /\ PipelineIdle

NextMerge == merge_annotations

SpecMerge == InitMerge /\ [][NextMerge]_vars

----------------------------------------------------------------------------
(* Input reports of an extraction *)

\* numbers of categories of the reports
CategoryCounts == {2, 3, 98, 99}

\* a labelled line of n words: first, then filler, then last
ValueLine(label, n, first, filler, last) ==
    label \o [i \in 1..n |-> IF i = n THEN last ELSE IF i = 1 THEN first ELSE filler]

\* a report with n categories whose last Enrichment value is injected
Report(n, injected, first, repeated, with_se, with_coeff) ==
    << CategoriesLabel \o [i \in 1..n |-> "cat"] >>
    \o (IF repeated THEN << ValueLine(EnrichmentLabel, n, "1.0", "1.0", "0.5") >> ELSE <<>>)
    \o << ValueLine(EnrichmentLabel, n, first, "1.0", injected) >>
    \o (IF with_se THEN << ValueLine(EnrichmentSELabel, n, "0.5", "0.5", "0.5") >> ELSE <<>>)
    \o (IF with_coeff THEN << ValueLine(CoefficientsLabel, n, "1.0", "1.0", "2.5"),
                              ValueLine(CoefficientSELabel, n, "0.5", "0.5", "0.5") >>
        ELSE <<>>)

Reports ==
    { Report(n, injected, first, repeated, with_se, with_coeff) :
        n \in CategoryCounts, injected \in {"2.5", "7.25", "NA"}, first \in {"1.0", "NA"},
        repeated \in BOOLEAN, with_se \in BOOLEAN, with_coeff \in BOOLEAN }

\* a total-heritability line, with the prefix of a log line or without
H2Line(prefix, words) == prefix \o H2Label \o words
LogPrefix == <<"INFO", "-">>

H2Sections ==
    { <<>>,
      << H2Line(<<>>, <<"0.5", "(0.5)">>) >>,
      << H2Line(<<>>, <<"0.5", "(0.5)">>), H2Line(LogPrefix, <<"2.5", "(1.0)">>) >>,
      << H2Line(<<>>, <<"2.5">>) >>,
      << H2Line(<<>>, <<"NA", "(0.5)">>) >>,
      << H2Line(<<>>, <<"NA", "(0.5)">>), H2Line(LogPrefix, <<"2.5", "(1.0)">>) >>,
      << H2Line(<<>>, <<"0.5", "(0.5)">>), H2Line(LogPrefix, <<"2.5", "(NA)">>) >> }

\* a summary line of the enhancer annotation: label, value, (standard error), name
EnhancerLine(label_word, value, se) == <<label_word, value, se, "O_enhancer">>

EnhancerEnrichmentSections ==
    { <<>>,
      << EnhancerLine("Enrichment:", "2.5", "(0.5)") >>,
      << EnhancerLine("Enrichment:", "1.0", "(0.5)"), EnhancerLine("Enrichment:", "2.5", "(1.0)") >>,
      << EnhancerLine("Enrichment:", "2.5", "(0.5)"), EnhancerLine("Enrichment:", "NA", "(1.0)") >>,
      << EnhancerLine("Enrichment:", "2.5", "(0.0)") >>,
      << <<"Enrichment:", "2.5">> >> }

EnhancerCoefficientSections ==
    { <<>>, << EnhancerLine("Coefficient:", "0.5", "(0.5)") >> }

\* reports that carry total-heritability lines and summary lines of the
\* enhancer annotation after the lines of a two-category report
SummaryReports ==
    { Report(2, "2.5", "1.0", FALSE, FALSE, FALSE) \o h2 \o e \o c :
        h2 \in H2Sections, e \in EnhancerEnrichmentSections, c \in EnhancerCoefficientSections }

InitParse ==
    /\ log_content \in Reports \cup SummaryReports
    /\ parser = "none"
    /\ parsed = NoneResult
    /\ MergeIdle
    /\ BatchIdle
    /\ CombineIdle
    /\ PipelineIdle

NextParse ==
    \/ run_extract_celltype_enrichment_from_log
    \/ run_extract_correct_results
    \/ run_extract_results
    \/ run_parse_ldsc_results

SpecParse == InitParse /\ [][NextParse]_vars

----------------------------------------------------------------------------
(* Properties of the extraction *)

\* the Categories line and the last Enrichment line of the report
CategoryNames == after_label(log_content[1], CategoriesLabel)
LastEnrichmentWords ==
    after_label(log_content[last_line(log_content, EnrichmentLabel)], EnrichmentLabel)

\* every word of the last Enrichment line is numeric
EnrichmentWellFormed == \A i \in 1..Len(LastEnrichmentWords) : is_float(LastEnrichmentWords[i])

\* the enrichment an extractor returned, under the key that extractor uses
ReturnedEnrichment ==
    IF parser = "_extract_celltype_enrichment_from_log"
    THEN [set |-> parsed.returned = "dict",
          value |-> IF parsed.returned = "dict" THEN parsed.results.enrichment ELSE 0]
    ELSE [set |-> parsed.returned = "dict" /\ "enhancer_enrichment" \in DOMAIN parsed.results,
          value |-> IF parsed.returned = "dict" /\ "enhancer_enrichment" \in DOMAIN parsed.results
                    THEN parsed.results["enhancer_enrichment"] ELSE 0]

\* C4: for every report, the enrichment returned for the target category is the
\* numeric word of the Enrichment line at the position of the last name of the
\* Categories line, for any number of preceding categories.
C4_TargetIsLastCategory ==
    (parser \notin {"none", "idle"} /\ EnrichmentWellFormed) =>
        /\ ReturnedEnrichment.set
        /\ ReturnedEnrichment.value = float(LastEnrichmentWords[Len(CategoryNames)])

----------------------------------------------------------------------------
(* A batch of datasets: collected one by one, then aggregated *)

InitCorrect ==
    /\ ldsc_results = <<>>
    /\ results_df = NoResultsFrame
    /\ phase = "collecting"
    /\ MergeIdle
    /\ ParseIdle
    /\ CombineIdle
    /\ PipelineIdle

NextCorrect == record_result \/ aggregate_results

SpecCorrect == InitCorrect /\ [][NextCorrect]_vars

----------------------------------------------------------------------------
(* The weighted cell-type enrichment of a results table                     *)
(* (_calculate_celltype_weighted_enrichment).  A line of the table is a     *)
(* record [first |-> its first word, as a name, rest |-> its other words];  *)
(* a blank line has an empty first word.  Enrichments, standard errors and  *)
(* p-values are in thousandths; a weight 1 / SE^2 is an exact fraction; the *)
(* combined standard error sqrt(1 / total_weight) is kept as its square;    *)
(* Fisher's statistic -2 * sum(ln p) is kept as the product of the p-values *)
(* whose logarithm it is, with the degrees of freedom beside it.  None is a *)
(* record with is_none set.                                                 *)

RECURSIVE gcd(_, _)
gcd(a, b) == IF b = 0 THEN a ELSE gcd(b, a % b)

Abs(x) == IF x < 0 THEN 0 - x ELSE x

\* a fraction with a positive denominator in lowest terms
FracReduce(x) ==
    LET g == gcd(Abs(x.num), x.den)
    IN  Frac(x.num \div g, x.den \div g)

FracAdd(x, y) ==
    LET l == (x.den \div gcd(x.den, y.den)) * y.den
    IN  FracReduce(Frac(x.num * (l \div x.den) + y.num * (l \div y.den), l))

FracMul(x, y) == FracReduce(Frac(x.num * y.num, x.den * y.den))

\* x / y for a positive y
FracDiv(x, y) == FracReduce(Frac(x.num * y.den, x.den * y.num))

Category == <<"C","a","t","e","g","o","r","y">>
Total    == <<"T","o","t","a","l">>

\* the words of a header that contain 'Prop._SNPs' and 'Enrichment'
PropSNPsWords   == {"Prop._SNPs"}
EnrichmentWords == {"Enrichment", "Enrichment_std_error", "Enrichment_p"}

\* 'Category' in line and 'Prop._SNPs' in line and 'Enrichment' in line
is_table_header(line) ==
    /\ Contains(Category, line.first)
    /\ Range(line.rest) \cap PropSNPsWords # {}
    /\ Range(line.rest) \cap EnrichmentWords # {}

\* line.startswith('Total')
starts_with_total(line) ==
    Len(line.first) >= Len(Total) /\ SubSeq(line.first, 1, Len(Total)) = Total

\* len(line.split())
parts_count(line) == IF line.first = <<>> THEN 0 ELSE 1 + Len(line.rest)

\* float(word) if self._is_float(word) else None
float_or_none(word) ==
    IF is_float(word) THEN [is_none |-> FALSE, value |-> float(word)]
    ELSE [is_none |-> TRUE, value |-> 0]

\* ['enhancer', 'h3k4me1', 'h3k27ac', 'dnase']
enhancer_keywords == { <<"e","n","h","a","n","c","e","r">>,
                       <<"h","3","k","4","m","e","1">>,
                       <<"h","3","k","2","7","a","c">>,
                       <<"d","n","a","s","e">> }

\* any(keyword in category.lower() for keyword in [...])
is_enhancer_category(category) ==
    \E keyword \in enhancer_keywords : Contains(keyword, Lower(category))

\* the loop over the lines of the file that fills enrichment_data
RECURSIVE enrichment_data(_, _, _, _)
enrichment_data(content, i, table_started, acc) ==
    IF i > Len(content) THEN acc
    ELSE LET line == content[i]
         IN  IF is_table_header(line)
             THEN enrichment_data(content, i + 1, TRUE, acc)
             ELSE IF /\ table_started
                     /\ line.first # <<>>
                     /\ ~starts_with_total(line)
                     /\ parts_count(line) >= 7
                     /\ is_enhancer_category(line.first)
                  THEN enrichment_data(content, i + 1, table_started,
                           Append(acc, [category      |-> line.first,
                                        enrichment    |-> float_or_none(line.rest[4]),
                                        enrichment_se |-> float_or_none(line.rest[5]),
                                        enrichment_p  |-> float_or_none(line.rest[6])]))
                  ELSE enrichment_data(content, i + 1, table_started, acc)

\* d['enrichment'] is not None and d['enrichment_se'] is not None
has_enrichment(d) == ~d.enrichment.is_none /\ ~d.enrichment_se.is_none

valid_enrichments(data) == SelectSeq(data, has_enrichment)

\* a weight of 1 / SE
weight_by_inverse_se(se) == FracReduce(Frac(1000, Abs(se)))

\* weight = 1.0 / (data['enrichment_se'] ** 2)
weight(se) == FracReduce(Frac(1000000, se * se))

\* a category weighted whenever its standard error is not zero
has_nonzero_se(data) == data.enrichment_se.value # 0

\* if data['enrichment_se'] > 0
has_positive_se(data) == data.enrichment_se.value > 0

\* the loop that accumulates weighted_enrichment and total_weight
RECURSIVE weighted_sums(_, _, _)
weighted_sums(valid, i, acc) ==
    IF i > Len(valid) THEN acc
    ELSE LET data == valid[i]
         IN  IF has_positive_se(data)
             THEN weighted_sums(valid, i + 1,
                      [weighted_enrichment |->
                           FracAdd(acc.weighted_enrichment,
                                   FracMul(Frac(data.enrichment.value, 1),
                                           weight(data.enrichment_se.value))),
                       total_weight |->
                           FracAdd(acc.total_weight, weight(data.enrichment_se.value))])
             ELSE weighted_sums(valid, i + 1, acc)

\* d['enrichment_p'] is not None and d['enrichment_p'] > 0
has_positive_p(d) == ~d.enrichment_p.is_none /\ d.enrichment_p.value > 0

\* valid_ps, taken from valid_enrichments
valid_ps(valid) ==
    LET kept == SelectSeq(valid, has_positive_p)
    IN  [i \in 1..Len(kept) |-> kept[i].enrichment_p.value]

\* the first p-value alone
product_of_first(ps, i) == FracReduce(Frac(ps[1], 1000))

\* the product whose logarithm sum(np.log(p) for p in valid_ps) is
RECURSIVE product_of(_, _)
product_of(ps, i) ==
    IF i > Len(ps) THEN Frac(1, 1)
    ELSE FracMul(Frac(ps[i], 1000), product_of(ps, i + 1))

\* combined_p: 1 - chi2.cdf(-2 * sum(log p), df = 2 * len(valid_ps)), or None
combined_p(ps) ==
    IF ps # <<>>
    THEN [is_none |-> FALSE, product |-> product_of(ps, 1), df |-> 2 * Len(ps)]
    ELSE [is_none |-> TRUE, product |-> Frac(1, 1), df |-> 0]

\* return None
NoEnrichment == [NotCalculated EXCEPT !.returned = "None"]

\* _calculate_celltype_weighted_enrichment; none of its steps raises on the
\* files modelled, so  except Exception: return None  is not entered
calculate_celltype_weighted_enrichment(content) ==
    LET data  == enrichment_data(content, 1, FALSE, <<>>)
        valid == valid_enrichments(data)
        sums  == weighted_sums(valid, 1, [weighted_enrichment |-> Frac(0, 1),
                                          total_weight |-> Frac(0, 1)])
    IN  IF data = <<>> THEN NoEnrichment
        ELSE IF valid = <<>> THEN NoEnrichment
        ELSE IF sums.total_weight.num = 0 THEN NoEnrichment
        ELSE [returned                 |-> "dict",
              enrichment               |-> FracDiv(sums.weighted_enrichment, sums.total_weight),
              enrichment_se_squared    |-> FracDiv(Frac(1, 1), sums.total_weight),
              enrichment_p             |-> combined_p(valid_ps(valid)),
              enhancer_categories_used |-> Len(valid)]

run_calculate_celltype_weighted_enrichment ==
    /\ weighted_result.returned = "none"
    /\ weighted_result' = calculate_celltype_weighted_enrichment(results_file)
    /\ UNCHANGED results_file
    /\ UNCHANGED <<merge_vars, batch_vars, parse_vars, pipeline_vars>>

----------------------------------------------------------------------------
(* Results tables read by the combiner *)
MaxCategories == 3

TableHeader ==
    [first |-> Category,
     rest  |-> <<"Prop._SNPs", "Prop._h2", "Prop._h2_std_error",
                 "Enrichment", "Enrichment_std_error", "Enrichment_p">>]

TableRow(category, e, s, p) ==
    [first |-> category, rest |-> <<"0.5", "0.5", "0.5", e, s, p>>]

BlankLine == [first |-> <<>>, rest |-> <<>>]

\* rows with every value well formed and positive, rows with one value missing,
\* zero or negative, a row of another enhancer-related category and a row of a
\* category that is not enhancer-related
TableRows ==
    { TableRow(O_enhancer, "1.0", "0.5", "0.01"),
      TableRow(O_enhancer, "2.5", "1.0", "0.04"),
      TableRow(O_enhancer, "2.5", "0.5", "0.04"),
      TableRow(O_enhancer, "NA",  "0.5", "0.01"),
      TableRow(O_enhancer, "2.5", "NA",  "0.04"),
      TableRow(O_enhancer, "2.5", "0.0", "0.01"),
      TableRow(O_enhancer, "2.5", "-0.5", "0.04"),
      TableRow(O_enhancer, "1.0", "0.5", "0.0"),
      TableRow(O_enhancer, "1.0", "1.0", "NA"),
      TableRow(H3K27ac,    "2.5", "0.5", "0.01"),
      TableRow(base,       "2.5", "0.5", "0.01") }

ResultsFiles ==
    { <<TableHeader>> \o rows : rows \in SeqsUpTo(TableRows, MaxCategories) }
    \cup { <<TableRow(O_enhancer, "1.0", "0.5", "0.01")>>,
           <<TableRow(O_enhancer, "1.0", "0.5", "0.01"), TableHeader,
             TableRow(O_enhancer, "2.5", "1.0", "0.04")>>,
           <<TableHeader, TableRow(Total, "1.0", "0.5", "0.01"), BlankLine,
             TableRow(O_enhancer, "2.5", "1.0", "0.04")>>,
           <<TableHeader, [first |-> O_enhancer, rest |-> <<"0.5", "0.5", "0.5", "2.5">>]>> }

InitCombine ==
    /\ results_file \in ResultsFiles
    /\ weighted_result = [NotCalculated EXCEPT !.returned = "none"]
    /\ MergeIdle
    /\ BatchIdle
    /\ ParseIdle
    /\ PipelineIdle

NextCombine == run_calculate_celltype_weighted_enrichment

SpecCombine == InitCombine /\ [][NextCombine]_vars

----------------------------------------------------------------------------
(* The regression step of one dataset (_run_baseline_ldsc_regression).     *)
(* The report <dataset>_h2.log is one file: log_content holds its labelled *)
(* lines and results_file its table lines.  No labelled line is read as a  *)
(* table row by the combiner (its first word holds no enhancer keyword)    *)
(* and no table line holds a label the parser or the extractor looks for,  *)
(* so each function is applied to the part of the file it can read.  The   *)
(* floats of the returned dict are fractions: values in thousandths, a     *)
(* standard error as its square, a p-value as the statistic it comes from. *)
(* A run of the regression that ends with a return code other than 0 is    *)
(* taken to leave no report behind.                                         *)

MaxCalls == 2

\* a float of the parser or of the extractor as the fraction of the same value
as_fraction(key, v) ==
    IF key \in {"total_h2", "total_h2_se"} THEN v
    ELSE IF key \in {"enrichment", "coefficient"} THEN Frac(v, 1)
    ELSE IF key \in {"enrichment_se", "coefficient_se"} THEN FracReduce(Frac(v * v, 1000000))
    ELSE [is_none |-> FALSE, z_num |-> v.z_num, z_den |-> v.z_den]

in_fractions(dict) == [k \in DOMAIN dict |-> as_fraction(k, dict[k])]

\* the dict returned by _calculate_celltype_weighted_enrichment
enrichment_dict(calculated) ==
    [enrichment               |-> calculated.enrichment,
     enrichment_se            |-> calculated.enrichment_se_squared,
     enrichment_p             |-> calculated.enrichment_p,
     enhancer_categories_used |-> calculated.enhancer_categories_used]

\* parsed_results.update(enrichment_data)
update(dict, other) ==
    [k \in DOMAIN dict \cup DOMAIN other |-> IF k \in DOMAIN other THEN other[k] ELSE dict[k]]

\* f"{enrichment_data.get('enrichment_p', 'N/A'):.2e}": None has no such
\* format, the TypeError is caught by  except Exception: return None
format_p(enrichment_p) == IF enrichment_p.is_none THEN "TypeError" ELSE "formatted"

\* LDSCPipeline._run_baseline_ldsc_regression: with the report on disk the
\* parsed results, completed by the extractor when they hold no enrichment;
\* otherwise the regression is run and, on return code 0, the parsed results
\* are completed by the weighted combination
run_baseline_ldsc_regression(exists, code, log, table) ==
    LET parsed_results  == in_fractions(parse_ldsc_results(log).results)
        from_log        == extract_celltype_enrichment_from_log(log)
        weighted == calculate_celltype_weighted_enrichment(table)
    IN  IF exists
        THEN IF /\ DOMAIN parsed_results # {}
                /\ "enrichment" \notin DOMAIN parsed_results
                /\ from_log.returned = "dict"
             THEN [returned |-> "dict",
                   results  |-> update(parsed_results, in_fractions(from_log.results))]
             ELSE [returned |-> "dict", results |-> parsed_results]
        ELSE IF code # 0 THEN NoneResult
        ELSE IF DOMAIN parsed_results = {} \/ weighted.returned # "dict"
        THEN [returned |-> "dict", results |-> parsed_results]
        ELSE IF format_p(weighted.enrichment_p) = "TypeError" THEN NoneResult
        ELSE [returned |-> "dict",
              results  |-> update(parsed_results, enrichment_dict(weighted))]

\* one call for the dataset; a regression that ends with return code 0 has
\* written the report
call_run_baseline_ldsc_regression ==
    /\ Len(h2_history) < MaxCalls
    /\ h2_history' = Append(h2_history,
                            run_baseline_ldsc_regression(report_exists, returncode,
                                                         log_content, results_file))
    /\ report_exists' = (report_exists \/ returncode = 0)
    /\ UNCHANGED <<returncode, log_content, results_file, parser, parsed, weighted_result>>
    /\ UNCHANGED <<merge_vars, batch_vars, loop_vars, rerun_vars>>

(* Reports of a regression *)
ReturnCodes == {0, 1}

RegressionLogs ==
    { r \o h2 \o e :
        r  \in { <<>>, Report(98, "2.5", "1.0", FALSE, TRUE, FALSE) },
        h2 \in { <<>>, << H2Line(<<>>, <<"0.5", "(0.5)">>) >> },
        e  \in { <<>>, << EnhancerLine("Enrichment:", "2.5", "(0.5)") >>,
                 << EnhancerLine("Enrichment:", "2.5", "(0.0)") >> } }

RegressionTables ==
    { <<>>,
      <<TableHeader, TableRow(O_enhancer, "1.0", "0.5", "0.01")>>,
      <<TableHeader, TableRow(O_enhancer, "2.5", "1.0", "0.04"),
                     TableRow(H3K27ac,    "2.5", "0.5", "0.01")>>,
      <<TableHeader, TableRow(O_enhancer, "1.0", "1.0", "NA")>>,
      <<TableHeader, TableRow(O_enhancer, "NA",  "0.5", "0.01")>>,
      <<TableHeader, TableRow(O_enhancer, "2.5", "0.0", "0.01")>> }

InitRegress ==
    /\ log_content \in RegressionLogs
    /\ results_file \in RegressionTables
    /\ report_exists \in BOOLEAN
    /\ returncode \in ReturnCodes
    /\ h2_history = <<>>
    /\ LoopIdle
    /\ RerunIdle
    /\ parser = "idle"
    /\ parsed = NoneResult
    /\ weighted_result = NotCalculated
    /\ MergeIdle
    /\ BatchIdle

NextRegress == call_run_baseline_ldsc_regression

SpecRegress == InitRegress /\ [][NextRegress]_vars

----------------------------------------------------------------------------
(* The loops that analyse or load the datasets of a batch.  A dataset is   *)
(* its name, whether its LD scores can be created, whether its report is   *)
(* on disk, the return code of its regression and the report itself.       *)

MaxBatch == 3

\* 2 * (1 - norm.cdf(abs(z))) in units of 0.00001, for the z-scores of the
\* reports of a batch: 1.0 at z = 0 and 0.0027 at z = 3
two_sided_p(z_num, z_den) ==
    CASE z_num = 0         -> p_one
      [] z_num = 3 * z_den -> 270

\* 1 - chi2.cdf(-2 * log(product), df=2) in units of 0.00001: with one
\* p-value Fisher's statistic gives the p-value back
fisher_p(product, df) ==
    CASE df = 2 -> (product.num * p_one) \div product.den

\* results.get('enrichment_p', np.nan), a None read as NaN by the data frame
get_enrichment_p(results) ==
    IF "enrichment_p" \notin DOMAIN results THEN NaN
    ELSE LET p == results["enrichment_p"]
         IN  IF p.is_none THEN NaN
             ELSE IF "z_num" \in DOMAIN p THEN two_sided_p(p.z_num, p.z_den)
             ELSE fisher_p(p.product, p.df)

\* LDSCAnalyzer._run_ldsc_regression: the parsed report when it is on disk,
\* None without enough LD score files or when the regression fails
run_ldsc_regression(exists, ld_scores, code, log) ==
    LET parsed_results == in_fractions(parse_ldsc_results(log).results)
    IN  IF exists THEN [returned |-> "dict", results |-> parsed_results]
        ELSE IF ~ld_scores THEN NoneResult
        ELSE IF code # 0 THEN NoneResult
        ELSE [returned |-> "dict", results |-> parsed_results]

\* a test that only None fails
is_not_none(h2_results) == h2_results.returned = "dict"

\* if h2_results:  (None and the empty dict are false)
truthy(h2_results) == h2_results.returned = "dict" /\ DOMAIN h2_results.results # {}

\* all_results[dataset_name] = h2_results
with_results(all_results, dataset_name, h2_results) ==
    Append(all_results, [dataset_id   |-> dataset_name,
                         enrichment_p |-> get_enrichment_p(h2_results.results)])

\* one iteration of the loop of run_partitioned_heritability
run_partitioned_heritability ==
    /\ loop = "run_partitioned_heritability"
    /\ phase = "collecting"
    /\ processed < Len(datasets)
    /\ LET dataset == datasets[processed + 1]
           ldscores_created == dataset.ld_scores
           h2_results == run_ldsc_regression(dataset.exists, dataset.ld_scores,
                                             dataset.returncode, dataset.log)
       IN  IF ldscores_created /\ truthy(h2_results)
           THEN /\ ldsc_results' = with_results(ldsc_results, dataset.name, h2_results)
                /\ UNCHANGED error_log
           ELSE /\ error_log' = Append(error_log, dataset.name)
                /\ UNCHANGED ldsc_results
    /\ processed' = processed + 1
    /\ UNCHANGED <<results_df, phase, loop, datasets>>
    /\ UNCHANGED <<merge_vars, parse_vars, combine_vars, regress_vars, rerun_vars>>

\* one iteration of the loop of _run_optimized_ldsc_regression
run_optimized_ldsc_regression ==
    /\ loop = "_run_optimized_ldsc_regression"
    /\ phase = "collecting"
    /\ processed < Len(datasets)
    /\ LET dataset == datasets[processed + 1]
           h2_results == run_baseline_ldsc_regression(dataset.exists, dataset.returncode,
                                                      dataset.log, dataset.table)
       IN  IF truthy(h2_results)
           THEN /\ ldsc_results' = with_results(ldsc_results, dataset.name, h2_results)
                /\ UNCHANGED error_log
           ELSE /\ error_log' = Append(error_log, dataset.name)
                /\ UNCHANGED ldsc_results
    /\ processed' = processed + 1
    /\ UNCHANGED <<results_df, phase, loop, datasets>>
    /\ UNCHANGED <<merge_vars, parse_vars, combine_vars, regress_vars, rerun_vars>>

\* one iteration of the loop of _load_existing_ldsc_results over the reports
\* on disk: a dataset without a report is not among result_files
load_existing_ldsc_results ==
    /\ loop = "_load_existing_ldsc_results"
    /\ phase = "collecting"
    /\ processed < Len(datasets)
    /\ LET dataset == datasets[processed + 1]
           parsed_results == [returned |-> "dict",
                              results  |-> in_fractions(parse_ldsc_results(dataset.log).results)]
       IN  IF dataset.exists /\ truthy(parsed_results)
           THEN ldsc_results' = with_results(ldsc_results, dataset.name, parsed_results)
           ELSE UNCHANGED ldsc_results
    /\ processed' = processed + 1
    /\ UNCHANGED <<results_df, phase, loop, datasets, error_log>>
    /\ UNCHANGED <<merge_vars, parse_vars, combine_vars, regress_vars, rerun_vars>>

(* Batches of datasets *)
Loops == {"run_partitioned_heritability", "_run_optimized_ldsc_regression",
          "_load_existing_ldsc_results"}

H2Only == << H2Line(<<>>, <<"0.5", "(0.5)">>) >>

\* the dataset of a kind: analysed to the end, reported on disk with its
\* enrichment line, failed in the regression, without LD scores, with a
\* report that has no heritability line, with a report the parser gives up
\* on, with a table that has no valid category, with a table without p-value
Dataset(ld_scores, exists, code, log, table) ==
    [ld_scores |-> ld_scores, exists |-> exists, returncode |-> code, log |-> log, table |-> table]

DatasetKinds ==
    { Dataset(TRUE, FALSE, 0, H2Only, <<TableHeader, TableRow(O_enhancer, "1.0", "0.5", "0.01")>>),
      Dataset(TRUE, TRUE, 0, H2Only \o << EnhancerLine("Enrichment:", "2.5", "(0.5)") >>, <<>>),
      Dataset(TRUE, FALSE, 1, <<>>, <<>>),
      Dataset(FALSE, FALSE, 0, H2Only, <<TableHeader, TableRow(O_enhancer, "1.0", "0.5", "0.01")>>),
      Dataset(TRUE, TRUE, 0, <<>>, <<>>),
      Dataset(TRUE, TRUE, 0, H2Only \o << EnhancerLine("Enrichment:", "2.5", "(0.0)") >>, <<>>),
      Dataset(TRUE, FALSE, 0, H2Only, <<TableHeader, TableRow(O_enhancer, "NA", "0.5", "0.01")>>),
      Dataset(TRUE, FALSE, 0, H2Only, <<TableHeader, TableRow(O_enhancer, "1.0", "1.0", "NA")>>) }

\* where in DatasetNames the batch starts
NameOffsets == {0, 2, 6}

Named(kind, dataset_name) ==
    [name |-> dataset_name, ld_scores |-> kind.ld_scores, exists |-> kind.exists,
     returncode |-> kind.returncode, log |-> kind.log, table |-> kind.table]

Batches ==
    { [i \in 1..Len(kinds) |-> Named(kinds[i], DatasetNames[offset + i])] :
        kinds \in SeqsUpTo(DatasetKinds, MaxBatch), offset \in NameOffsets }

InitBatch ==
    /\ loop \in Loops
    /\ datasets \in Batches
    /\ processed = 0
    /\ error_log = <<>>
    /\ ldsc_results = <<>>
    /\ results_df = NoResultsFrame
    /\ phase = "collecting"
    /\ RegressIdle
    /\ RerunIdle
    /\ MergeIdle
    /\ ParseIdle
    /\ CombineIdle

NextBatch ==
    \/ run_partitioned_heritability
    \/ run_optimized_ldsc_regression
    \/ load_existing_ldsc_results
    \/ aggregate_results

SpecBatch == InitBatch /\ [][NextBatch]_vars

----------------------------------------------------------------------------
(* Repeated runs: the step of _create_combined_annotations for one         *)
(* chromosome, which merges only when the combined file is not on disk,    *)
(* and repeated calls of _parse_ldsc_results on one report.                *)

MaxRuns == 2

\* one run of the step for the chromosome: the combined file is written by
\* _merge_annotations when it does not exist and used as it is when it does;
\* a merge that fails records nothing
create_combined_annotations ==
    /\ Len(combined_annotations) < MaxRuns
    /\ IF output_file = NoFrame
       THEN LET out == merge_outcome(baseline_file, enhancer_file)
            IN  /\ baseline_df'  = out.baseline_df
                /\ removal'      = out.removal
                /\ output_file'  = out.output_file
                /\ merge_result' = out.result
                /\ combined_annotations' = Append(combined_annotations, out.output_file)
       ELSE /\ combined_annotations' = Append(combined_annotations, output_file)
            /\ UNCHANGED <<baseline_df, removal, output_file, merge_result>>
    /\ UNCHANGED <<baseline_file, enhancer_file, parse_history>>
    /\ UNCHANGED <<batch_vars, parse_vars, combine_vars, regress_vars, loop_vars>>

\* one more call of _parse_ldsc_results on the report
call_parse_ldsc_results ==
    /\ Len(parse_history) < MaxRuns
    /\ parse_history' = Append(parse_history, parse_ldsc_results(log_content))
    /\ UNCHANGED combined_annotations
    /\ UNCHANGED <<merge_vars, batch_vars, parse_vars, combine_vars, regress_vars, loop_vars>>

(* Inputs of repeated runs *)

\* a combined file left by an earlier run on another enhancer annotation
StaleCombined ==
    merge_outcome(
        [columns |-> <<CHR, BP, SNP, CM, base>>, rows |-> << <<1, 100, 1, 1, 1>> >>],
        [columns |-> <<CHR, BP, SNP, CM, O_enhancer>>, rows |-> << <<1, 100, 1, 1, 1>> >>]).output_file

RerunLogs ==
    { H2Only, H2Only \o << EnhancerLine("Enrichment:", "2.5", "(0.5)") >> }

InitRerun ==
    /\ baseline_file \in { b \in BaselineFiles : Len(b.rows) = 1 }
    /\ enhancer_file \in { e \in EnhancerFiles(baseline_file.columns) :
                              Len(e.rows) = 1 /\ e.rows[1][1] = 1 }
    /\ baseline_df = NoFrame
    /\ removal = "none"
    /\ output_file \in {NoFrame, StaleCombined}
    /\ merge_result = "none"
    /\ log_content \in RerunLogs
    /\ parser = "idle"
    /\ parsed = NoneResult
    /\ combined_annotations = <<>>
    /\ parse_history = <<>>
    /\ BatchIdle
    /\ CombineIdle
    /\ RegressIdle
    /\ LoopIdle

NextRerun == create_combined_annotations \/ call_parse_ldsc_results

SpecRerun == InitRerun /\ [][NextRerun]_vars

----------------------------------------------------------------------------
(* Properties of the merge *)

\* the conflict-named categories among the names of BaselineLayouts, listed by hand
ConflictNames == {Brain_DHS, DNase, H3K27ac, H3K4me1, Neuron}

Merged == merge_result = "True"

\* the background columns removed before the join
RemovedCols == Range(baseline_file.columns) \ Range(baseline_df.columns)

\* the categories the addition table brings
NewCategories == Range(enhancer_file.columns) \ CoordinateColumns

AdditionKeys == {RowKey(enhancer_file, j) : j \in 1..Len(enhancer_file.rows)}
BackgroundKeys == {RowKey(baseline_file, r) : r \in 1..Len(baseline_file.rows)}

\* at most one addition row per (CHR, BP, SNP)
AdditionKeysUnique ==
    \A i, j \in 1..Len(enhancer_file.rows) :
        RowKey(enhancer_file, i) = RowKey(enhancer_file, j) => i = j

\* C1 as stated: every successful merge gives exactly as many rows as the
\* background table, whatever rows and keys the addition table holds.
C1_RowCountAnyAddition ==
    Merged => Len(output_file.rows) = Len(baseline_file.rows)

\* C1 amended: when the addition table holds at most one row per (CHR, BP, SNP)
\* key, a successful merge gives exactly the background rows, one output row per
\* background row and in the background's order.
C1_RowCountUniqueAddition ==
    (Merged /\ AdditionKeysUnique) =>
        /\ Len(output_file.rows) = Len(baseline_file.rows)
        /\ \A r \in 1..Len(output_file.rows) :
              RowKey(output_file, r) = RowKey(baseline_file, r)

C1_Witness ==
    /\ Merged /\ AdditionKeysUnique
    /\ Len(baseline_file.rows) = 2
    /\ BackgroundKeys \cap AdditionKeys # {}
    /\ BackgroundKeys \ AdditionKeys # {}

\* C2: after a successful merge no cell of a newly added category is NaN, and a
\* row whose key no addition row carries holds 0 in every newly added category
\* (so an addition table with no matching row gives all-zero new categories).
C2_UnmatchedRowsZero ==
    Merged =>
        \A r \in 1..Len(output_file.rows) : \A c \in NewCategories :
            LET cell == output_file.rows[r][ColIndex(output_file.columns, c)]
            IN  /\ cell # NaN
                /\ RowKey(output_file, r) \notin AdditionKeys => cell = 0

C2_Witness ==
    /\ Merged
    /\ Len(baseline_file.rows) = 2
    /\ BackgroundKeys \ AdditionKeys # {}
    /\ \E r \in 1..Len(output_file.rows) :
          output_file.rows[r][ColIndex(output_file.columns, O_enhancer)] = 1

\* C3: in a combined table the addition's categories come after all surviving
\* background columns, which keep their relative order, and the target category
\* (the addition's last column) is the last column.
C3_NewCategoriesLast ==
    Merged =>
        /\ output_file.columns = baseline_df.columns \o enhancer_cols(enhancer_file)
        /\ baseline_df.columns =
              SelectSeq(baseline_file.columns, LAMBDA c : c \notin RemovedCols)
        /\ output_file.columns[Len(output_file.columns)] =
              enhancer_file.columns[Len(enhancer_file.columns)]

C3_Witness ==
    /\ Merged
    /\ RemovedCols # {}
    /\ Cardinality(NewCategories) = 2
    /\ output_file.columns[Len(output_file.columns)] = O_enhancer

\* C5: the category set of a combined table is (background categories minus the
\* removed conflict categories) united with the addition's categories, each once
\* under its own name, and no removed conflict category is in it.
C5_CategorySet ==
    Merged =>
        /\ Range(output_file.columns) \ CoordinateColumns =
              ((Range(baseline_file.columns) \ CoordinateColumns) \ RemovedCols)
                  \cup NewCategories
        /\ Cardinality(Range(output_file.columns)) = Len(output_file.columns)
        /\ RemovedCols \cap Range(output_file.columns) = {}

\* C6: before the join every background category whose name contains a conflict
\* keyword, in any letter case, is dropped, and CHR, BP, SNP, CM are never dropped.
C6_ConflictsDropped ==
    merge_result # "none" =>
        \A c \in Range(baseline_file.columns) :
            /\ c \in ConflictNames => c \notin Range(baseline_df.columns)
            /\ c \in CoordinateColumns => c \in Range(baseline_df.columns)

C6_Witness ==
    /\ merge_result # "none"
    /\ removal = "name"
    /\ {Brain_DHS, DNase, H3K4me1, Neuron} \subseteq RemovedCols

\* the columns at the configured indices that exist and are not coordinates
PositionalTargets ==
    { baseline_file.columns[idx + 1] :
        idx \in {i \in Range(brain_indices) : i < Len(baseline_file.columns)} }
    \ CoordinateColumns

\* C7: the positional fallback runs iff no background column matched by name;
\* it removes exactly the existing non-coordinate columns at the configured
\* indices, and a merge that removed by name removes nothing by position.
C7_FallbackOnlyWhenNoNameMatch ==
    merge_result # "none" =>
        /\ removal = "positional" <=> Range(baseline_file.columns) \cap ConflictNames = {}
        /\ removal = "positional" => RemovedCols = PositionalTargets
        /\ removal = "name" => RemovedCols = Range(baseline_file.columns) \cap ConflictNames

C7_Witness ==
    /\ merge_result # "none"
    /\ removal = "positional"
    /\ RemovedCols # {}
    /\ Len(baseline_file.columns) > 16
    /\ baseline_file.columns[16] = CM

----------------------------------------------------------------------------
(* Properties of the multiple-testing correction *)

Aggregated == phase = "aggregated"
BatchSize == Len(ldsc_results)
Stamped == CorrectionColumns \subseteq results_df.columns

\* threshold alpha / n on every row, flag iff p is strictly below it, and the
\* 8-dataset values of the example
BonferroniStamped ==
    /\ Stamped
    /\ Len(results_df.rows) = BatchSize
    /\ \A i \in 1..BatchSize :
          LET row == results_df.rows[i]
              p   == ldsc_results[i].enrichment_p
          IN  /\ row.bonferroni_threshold.num * BatchSize
                    = alpha * row.bonferroni_threshold.den
              /\ row.bonferroni_significant <=> (p # NaN /\ p * BatchSize < alpha)
              /\ BatchSize = 8 =>
                    /\ row.bonferroni_threshold.num = 625 * row.bonferroni_threshold.den
                    /\ p = 400 => row.bonferroni_significant
                    /\ p = 700 => ~row.bonferroni_significant

SortedBatch == sort_ascending([i \in 1..BatchSize |->
                  IF ldsc_results[i].enrichment_p = NaN THEN p_one
                  ELSE ldsc_results[i].enrichment_p])

\* the first rank, in ascending order, of the p-value of dataset i
RankOf(i) ==
    LET p == IF ldsc_results[i].enrichment_p = NaN THEN p_one
             ELSE ldsc_results[i].enrichment_p
    IN  1 + Cardinality({j \in 1..BatchSize : SortedBatch[j] < p})

\* C9: in a corrected batch the stored FDR-corrected p-value of the dataset of
\* rank k is the minimum over the ranks j >= k of p_j * n / j, and the dataset
\* is flagged FDR-significant iff that value is below alpha.
C9_FdrIsBenjaminiHochberg ==
    (Aggregated /\ Stamped) =>
        \A i \in 1..BatchSize :
            LET row == results_df.rows[i]
            IN  /\ \E k \in RankOf(i)..BatchSize :
                      /\ FracEq(row.fdr_corrected_p, Frac(SortedBatch[k] * BatchSize, k))
                      /\ \A j \in RankOf(i)..BatchSize :
                            ~FracLess(Frac(SortedBatch[j] * BatchSize, j), row.fdr_corrected_p)
                /\ row.fdr_significant <=> FracLess(row.fdr_corrected_p, Frac(alpha, 1))

\* C10: in the correction step a dataset without a p-value keeps its row, is
\* counted in the n of the threshold, enters the FDR column as p = 1.0 and is
\* flagged neither Bonferroni- nor FDR-significant.
C10_MissingCountsAsOne ==
    (Aggregated /\ Stamped) =>
        /\ Len(results_df.rows) = BatchSize
        /\ \A i \in 1..BatchSize :
              LET row == results_df.rows[i]
              IN  /\ row.dataset_id = ldsc_results[i].dataset_id
                  /\ row.bonferroni_threshold.num * BatchSize
                        = alpha * row.bonferroni_threshold.den
                  /\ ldsc_results[i].enrichment_p = NaN =>
                        /\ row.fdr_corrected_p.num = 100000 * row.fdr_corrected_p.den
                        /\ ~row.bonferroni_significant
                        /\ ~row.fdr_significant

C10_Witness ==
    /\ Aggregated /\ Stamped /\ BatchSize = 8
    /\ Cardinality({i \in 1..BatchSize : ldsc_results[i].enrichment_p = NaN}) = 1
    /\ \E j \in 1..BatchSize :
          /\ ldsc_results[j].enrichment_p = 700
          /\ ~results_df.rows[j].bonferroni_significant

\* C11: while the batch is being populated no correction column exists; the
\* correction is written by the step that closes the batch, with a threshold
\* of alpha over the final number of records; and once it is written neither
\* the batch nor the corrected frame changes again.
C11_CorrectedOnceOnFullBatch ==
    [][/\ phase = "collecting" => results_df.columns \cap CorrectionColumns = {}
       /\ phase' = "aggregated" =>
             /\ Len(results_df'.rows) = Len(ldsc_results')
             /\ Stamped' =>
                   \A i \in 1..Len(ldsc_results') :
                       results_df'.rows[i].bonferroni_threshold.num * Len(ldsc_results')
                           = alpha * results_df'.rows[i].bonferroni_threshold.den
       /\ phase = "aggregated" =>
             /\ ldsc_results' = ldsc_results
             /\ results_df' = results_df]_vars

C11_Witness ==
    /\ Aggregated /\ Stamped /\ BatchSize = 5
    /\ \A i \in 1..BatchSize :
          results_df.rows[i].bonferroni_threshold.num = 1000 * results_df.rows[i].bonferroni_threshold.den

----------------------------------------------------------------------------
(* Properties of the combiner *)

Calculated == weighted_result.returned \in {"None", "dict"}

\* the category results the combiner read from the table
CategoryResults == enrichment_data(results_file, 1, FALSE, <<>>)

\* the categories of data that have an enrichment and a standard error above 0
Weighing(data) ==
    { i \in 1..Len(data) :
         /\ ~data[i].enrichment.is_none
         /\ ~data[i].enrichment_se.is_none
         /\ data[i].enrichment_se.value > 0 }

\* 1 / s^2
InverseVariance(d) ==
    FracReduce(Frac(1000000, d.enrichment_se.value * d.enrichment_se.value))

\* the sum of 1 / s_i^2 over the categories S of data
RECURSIVE SumInverseVariance(_, _)
SumInverseVariance(data, S) ==
    IF S = {} THEN Frac(0, 1)
    ELSE LET i == CHOOSE i \in S : TRUE
         IN  FracAdd(InverseVariance(data[i]), SumInverseVariance(data, S \ {i}))

\* the sum of e_i / s_i^2 over the categories S of data
RECURSIVE SumWeightedEnrichment(_, _)
SumWeightedEnrichment(data, S) ==
    IF S = {} THEN Frac(0, 1)
    ELSE LET i == CHOOSE i \in S : TRUE
         IN  FracAdd(FracMul(Frac(data[i].enrichment.value, 1), InverseVariance(data[i])),
                     SumWeightedEnrichment(data, S \ {i}))

\* C12: whenever a category with a standard error above 0 exists, the combined
\* enrichment times the sum of 1 / s_i^2 equals the sum of e_i / s_i^2 and the
\* squared combined standard error times the sum of 1 / s_i^2 equals 1, both
\* sums taken over exactly the categories with s_i > 0.
C12_InverseVarianceWeighting ==
    Calculated =>
        LET data  == CategoryResults
            S     == Weighing(data)
            total == SumInverseVariance(data, S)
        IN  S # {} =>
              /\ weighted_result.returned = "dict"
              /\ FracEq(FracMul(weighted_result.enrichment, total),
                        SumWeightedEnrichment(data, S))
              /\ FracEq(FracMul(weighted_result.enrichment_se_squared, total), Frac(1, 1))

\* enrichments 1.0 and 2.5 with standard errors 0.5 and 1.0 beside a category
\* with a negative standard error: (1.0 * 4 + 2.5 * 1) / 5 = 1.3, SE^2 = 1 / 5
C12_Witness ==
    /\ weighted_result.returned = "dict"
    /\ weighted_result.enrichment = Frac(1300, 1)
    /\ weighted_result.enrichment_se_squared = Frac(1, 5)
    /\ LET data == CategoryResults
       IN  /\ Cardinality(Weighing(data)) = 2
           /\ \E i \in 1..Len(data) :
                 /\ ~data[i].enrichment_se.is_none
                 /\ data[i].enrichment_se.value < 0

\* the categories of data whose p-value is greater than 0
PositivePs(data) ==
    { i \in 1..Len(data) : ~data[i].enrichment_p.is_none /\ data[i].enrichment_p.value > 0 }

\* the product of the p-values of the categories S of data
RECURSIVE ProductOfPs(_, _)
ProductOfPs(data, S) ==
    IF S = {} THEN Frac(1, 1)
    ELSE LET i == CHOOSE i \in S : TRUE
         IN  FracMul(Frac(data[i].enrichment_p.value, 1000), ProductOfPs(data, S \ {i}))

\* C13: the combined significance of a returned result is Fisher's statistic
\* over exactly the category p-values greater than 0: the statistic is -2 ln of
\* their product and the degrees of freedom are twice their count; without
\* any such p-value the combined significance is unset.
C13_FisherOverPositivePs ==
    weighted_result.returned = "dict" =>
        LET data == CategoryResults
            S    == PositivePs(data)
        IN  IF S = {} THEN weighted_result.enrichment_p.is_none
            ELSE /\ ~weighted_result.enrichment_p.is_none
                 /\ weighted_result.enrichment_p.df = 2 * Cardinality(S)
                 /\ FracEq(weighted_result.enrichment_p.product, ProductOfPs(data, S))

----------------------------------------------------------------------------
(* Properties of the report parsers: sections absent, repeated or malformed *)

\* the report holds a total-heritability line
HasH2Line == \E i \in 1..Len(log_content) : contains_label(log_content[i], H2Label)

NumericKeys == {"total_h2", "total_h2_se", "enrichment", "enrichment_se", "enrichment_p",
                "coefficient", "coefficient_se", "coefficient_p"}

\* the field is not in the dict, or it is None
UnsetIn(dict, key) ==
    \/ key \notin DOMAIN dict
    \/ key \in {"total_h2", "total_h2_se"} /\ dict[key].is_none

\* C15: _parse_ldsc_results on a report without a total-heritability line
\* returns, without raising, a result whose numeric fields are all unset,
\* whatever enrichment or coefficient lines the report holds.
C15_NoHeritabilityLineAllUnset ==
    (parser = "_parse_ldsc_results" /\ ~HasH2Line) =>
        /\ parsed.returned = "dict"
        /\ \A key \in NumericKeys : UnsetIn(parsed.results, key)

\* the lines that hold a total-heritability section, and the words that
\* follow the label on the last of them
H2Lines == { i \in 1..Len(log_content) : contains_label(log_content[i], H2Label) }
LastH2Words ==
    LET line == log_content[Greatest(H2Lines)]
    IN  SubSeq(line, Least(label_offsets(line, H2Label)) + Len(H2Label) + 1, Len(line))

\* the summary lines of the enhancer annotation with the given label
EnhancerLines(label_word) ==
    { i \in 1..Len(log_content) :
         label_word \in Range(log_content[i]) /\ mentions_enhancer(log_content[i]) }

\* value (standard error): both numeric
WellFormedPair(words) ==
    /\ Len(words) >= 2
    /\ words[1] \in DigitWords
    /\ words[2] \in ParenWords /\ strip_parens(words[2]) \in DigitWords

\* C16: when the total-heritability section or the enhancer enrichment section
\* occurs more than once and its last occurrence is well formed, the field a
\* parser returns for it is the value of that last occurrence; the cell-type
\* extractor reads the last Enrichment line.
C16_LastOccurrenceWins ==
    /\ ( /\ parser \in {"_parse_ldsc_results", "extract_correct_results", "extract_results"}
         /\ parsed.returned = "dict"
         /\ Cardinality(H2Lines) > 1
         /\ WellFormedPair(LastH2Words) ) =>
            /\ "total_h2" \in DOMAIN parsed.results
            /\ parsed.results["total_h2"] = Some(float(LastH2Words[1]))
            /\ parsed.results["total_h2_se"] = Some(float(strip_parens(LastH2Words[2])))
    /\ ( /\ parser = "_parse_ldsc_results"
         /\ Cardinality(EnhancerLines("Enrichment:")) > 1
         /\ WellFormedPair(Tail(log_content[Greatest(EnhancerLines("Enrichment:"))])) ) =>
            LET line == log_content[Greatest(EnhancerLines("Enrichment:"))]
            IN  /\ "enrichment" \in DOMAIN parsed.results
                /\ parsed.results["enrichment"] = float(line[2])
                /\ parsed.results["enrichment_se"] = float(strip_parens(line[3]))
    /\ ( /\ parser = "_extract_celltype_enrichment_from_log"
         /\ parsed.returned = "dict" ) =>
            parsed.results.enrichment = celltype_value(floats_of(LastEnrichmentWords))

\* no line of the report starts with the label
SectionAbsent(label) == \A i \in 1..Len(log_content) : ~starts_with(log_content[i], label)

\* C17: a field whose labelled section is absent from the report is unset in
\* the parsed result: the enrichment SE, the coefficient and the coefficient SE
\* of the cell-type extractor and of the stand-alone extractors, and the
\* total-heritability SE of a heritability line without a parenthesised value.
C17_AbsentSectionUnset ==
    /\ (parser = "_extract_celltype_enrichment_from_log" /\ parsed.returned = "dict") =>
          /\ SectionAbsent(EnrichmentSELabel) => "enrichment_se" \notin DOMAIN parsed.results
          /\ SectionAbsent(CoefficientsLabel) => "coefficient" \notin DOMAIN parsed.results
          /\ SectionAbsent(CoefficientSELabel) => "coefficient_se" \notin DOMAIN parsed.results
    /\ (parser \in {"extract_correct_results", "extract_results"} /\ parsed.returned = "dict") =>
          /\ SectionAbsent(CoefficientsLabel) => "enhancer_coeff" \notin DOMAIN parsed.results
          /\ SectionAbsent(CoefficientSELabel) => "enhancer_coeff_se" \notin DOMAIN parsed.results
    /\ ( /\ parser = "_parse_ldsc_results"
         /\ H2Lines # {}
         /\ Range(LastH2Words) \cap ParenWords = {} ) =>
            UnsetIn(parsed.results, "total_h2_se")

\* C18: no parser raises on a malformed numeric word; the cell-type extractor
\* still returns the enrichment when the word of the target position (98) of
\* the last Enrichment line is numeric, and _parse_ldsc_results still returns
\* the enhancer enrichment when only the total-heritability line is malformed.
C18_MalformedTokenSkipped ==
    /\ parser \notin {"none", "idle"} => parsed.returned # "raise"
    /\ ( /\ parser = "_extract_celltype_enrichment_from_log"
         /\ ~SectionAbsent(EnrichmentLabel)
         /\ Len(LastEnrichmentWords) > celltype_index
         /\ is_float(LastEnrichmentWords[celltype_index + 1]) ) =>
            /\ parsed.returned = "dict"
            /\ parsed.results.enrichment = float(LastEnrichmentWords[celltype_index + 1])
    /\ ( /\ parser = "_parse_ldsc_results"
         /\ Cardinality(EnhancerLines("Enrichment:")) = 1
         /\ WellFormedPair(Tail(log_content[Greatest(EnhancerLines("Enrichment:"))]))
         /\ float(strip_parens(log_content[Greatest(EnhancerLines("Enrichment:"))][3])) # 0 ) =>
            /\ "enrichment" \in DOMAIN parsed.results
            /\ parsed.results["enrichment"]
                  = float(log_content[Greatest(EnhancerLines("Enrichment:"))][2])

----------------------------------------------------------------------------
(* Properties of the merge: tables that do not belong together *)

\* the chromosomes of the rows of a table
TableChromosomes(df) == { df.rows[r][ColIndex(df.columns, CHR)] : r \in 1..Len(df.rows) }

\* both tables have rows and no chromosome is common to them
DifferentChromosomes ==
    /\ baseline_file.rows # <<>>
    /\ enhancer_file.rows # <<>>
    /\ TableChromosomes(baseline_file) \cap TableChromosomes(enhancer_file) = {}

\* C19: a merge of a background table and an addition table for different
\* chromosomes does not succeed and writes no combined table.
C19_ChromosomeMismatchFails ==
    (merge_result \notin {"none", "idle"} /\ DifferentChromosomes) =>
        /\ merge_result # "True"
        /\ output_file = NoFrame

\* C20: whatever minimum of categories is configured, up to the 98 the
\* extractor of the regression report requires, a merge whose result has fewer
\* categories does not succeed and writes no combined table.
C20_TooFewCategoriesFails ==
    \A minimum \in 1..min_enrichment_values :
        ( /\ merge_result \notin {"none", "idle"}
          /\ output_file # NoFrame
          /\ final_categories(output_file) < minimum ) =>
            /\ merge_result # "True"
            /\ output_file = NoFrame

\* C30: the enhancer_categories_used of a returned result is the number of
\* categories that contributed a weight: those with an enrichment and a
\* standard error above 0.
C30_UsedCountsWeighingCategories ==
    weighted_result.returned = "dict" =>
        weighted_result.enhancer_categories_used = Cardinality(Weighing(CategoryResults))

\* the table with its category lines j and k exchanged
Swapped(content, j, k) ==
    [i \in 1..Len(content) |->
        IF i = 1 + j THEN content[1 + k]
        ELSE IF i = 1 + k THEN content[1 + j]
        ELSE content[i]]

----------------------------------------------------------------------------
(* Properties of the stored FDR column *)

\* the rank, in ascending order, of the original p-value of each dataset of
\* the batch, a missing p-value counted as 1.0
RanksOfBatch ==
    LET ps == [i \in 1..BatchSize |->
                  IF ldsc_results[i].enrichment_p = NaN THEN p_one
                  ELSE ldsc_results[i].enrichment_p]
    IN  [i \in 1..BatchSize |-> 1 + Cardinality({j \in 1..BatchSize : ps[j] < ps[i]})]

\* C24: in every corrected batch of at least 2 datasets, a dataset whose
\* original p-value (a missing one last) has a rank no higher than that of
\* another has a stored FDR-corrected p-value no greater than the other's.
C24_FdrMonotoneInRank ==
    (Aggregated /\ Stamped /\ BatchSize >= 2) =>
        LET ranks == RanksOfBatch
            rows  == results_df.rows
        IN  \A i, j \in 1..Len(ranks) :
                ranks[i] <= ranks[j] =>
                    ~FracLess(rows[j].fdr_corrected_p, rows[i].fdr_corrected_p)

\* a corrected batch with three different p-values and a missing one, stored
\* with strictly increasing FDR values
C24_Witness ==
    /\ Aggregated /\ Stamped /\ BatchSize = 4
    /\ { ldsc_results[i].enrichment_p : i \in 1..BatchSize } = {NaN, 400, 700, 3000}
    /\ LET ranks == RanksOfBatch
           rows  == results_df.rows
       IN  \A i, j \in 1..Len(ranks) :
               ranks[i] < ranks[j] =>
                   FracLess(rows[i].fdr_corrected_p, rows[j].fdr_corrected_p)

\* C29: in every batch on which correction has run, a dataset flagged
\* Bonferroni-significant is also flagged FDR-significant.
C29_BonferroniImpliesFdr ==
    (Aggregated /\ Stamped) =>
        \A i \in 1..BatchSize :
            results_df.rows[i].bonferroni_significant => results_df.rows[i].fdr_significant

----------------------------------------------------------------------------
(* Properties of the regression step *)

\* a value of a returned record: unset when nothing was returned or the key
\* is missing
FieldOf(record, key) ==
    IF record.returned = "dict" /\ key \in DOMAIN record.results
    THEN [is_set |-> TRUE, value |-> record.results[key]]
    ELSE [is_set |-> FALSE, value |-> Frac(0, 1)]

SameFraction(x, y) ==
    /\ x.is_set = y.is_set
    /\ x.is_set => FracEq(x.value, y.value)

\* whether the p-value of a record holds a number
HasP(record) ==
    LET p == FieldOf(record, "enrichment_p") IN p.is_set /\ ~p.value.is_none

\* the same enrichment and standard error, and a p-value in both or in neither
SameEnrichment(first, second) ==
    /\ SameFraction(FieldOf(first, "enrichment"), FieldOf(second, "enrichment"))
    /\ SameFraction(FieldOf(first, "enrichment_se"), FieldOf(second, "enrichment_se"))
    /\ HasP(first) = HasP(second)

\* C27: two calls in a row for one dataset and one report return the same
\* enrichment, standard error and p-value, whether the first ran the
\* regression or found the report on disk.
C27_SameRecordFreshOrOnDisk ==
    Len(h2_history) >= 2 => SameEnrichment(h2_history[1], h2_history[2])

\* the weighted combination of the report has an enrichment and no p-value
CombinedWithoutP ==
    LET calculated == calculate_celltype_weighted_enrichment(results_file)
    IN  calculated.returned = "dict" /\ calculated.enrichment_p.is_none

\* C28: a call that runs the regression, parses the report and combines the
\* categories into an enrichment without a p-value returns the record of the
\* dataset with the enrichment set and the p-value unset.
C28_RecordKeptWithoutP ==
    [][( /\ ~report_exists
         /\ returncode = 0
         /\ DOMAIN parse_ldsc_results(log_content).results # {}
         /\ CombinedWithoutP
         /\ Len(h2_history') = Len(h2_history) + 1 ) =>
            LET record == h2_history'[Len(h2_history')]
            IN  /\ record.returned = "dict"
                /\ FieldOf(record, "enrichment").is_set
                /\ ~HasP(record)]_vars

----------------------------------------------------------------------------
(* Properties of the batch *)

\* the dataset names that hold none of the labels Olig, Nurr, Pdgfra and
\* Aldh1l1, listed by hand
UnclassifiedNames == {Neg_cleaned, Neg_unique, NeuN_cleaned, NeuN_unique}

\* C23: the aggregated frame has one row for every dataset of the results it
\* was given, in their order, and the row of a dataset whose name holds none
\* of the known labels has the cell type 'Unknown'.
C23_OneRowEachUnknownByDefault ==
    Aggregated =>
        /\ Len(results_df.rows) = Len(ldsc_results)
        /\ \A i \in 1..Len(ldsc_results) :
              LET row == results_df.rows[i]
              IN  /\ row.dataset_id = ldsc_results[i].dataset_id
                  /\ row.dataset_id \in UnclassifiedNames <=> row.cell_type = "Unknown"

\* a frame of three datasets, two oligodendrocyte ones and an unclassified one
C23_Witness ==
    /\ Aggregated
    /\ Len(results_df.rows) = 3
    /\ results_df.rows[1].cell_type = "Oligodendrocyte"
    /\ results_df.rows[3].dataset_id = Neg_cleaned
    /\ results_df.rows[3].cell_type = "Unknown"
    /\ results_df.rows[3].processing_type = "Cleaned"

\* the loop has gone through every dataset
LoopDone == processed = Len(datasets)

\* what can fail in the analysis of a dataset: the creation of its LD scores
\* (run_partitioned_heritability only), a regression that has to be run and
\* ends with an error, a report the parser gives up on, and, where the
\* regression has just been run by _run_optimized_ldsc_regression, a
\* combination that finds no valid category
FailedLdScores(d) == loop = "run_partitioned_heritability" /\ ~d.ld_scores
FailedRegression(d) == ~d.exists /\ d.returncode # 0
FailedParsing(d) == DOMAIN parse_ldsc_results(d.log).results = {}
FailedCombination(d) ==
    /\ loop = "_run_optimized_ldsc_regression"
    /\ ~d.exists
    /\ calculate_celltype_weighted_enrichment(d.table).returned # "dict"

Failed(d) ==
    FailedLdScores(d) \/ FailedRegression(d) \/ FailedParsing(d) \/ FailedCombination(d)

\* the report holds no total heritability line
Incomplete(d) == \A i \in 1..Len(d.log) : ~contains_label(d.log[i], H2Label)

\* the datasets the loop is given: every dataset of a fresh run, the datasets
\* with a report on disk when the results are loaded
Given == IF loop = "_load_existing_ldsc_results"
         THEN SelectSeq(datasets, LAMBDA d : d.exists)
         ELSE datasets

NamesOf(seq) == [i \in 1..Len(seq) |-> seq[i].name]

\* C21: the batch that is corrected holds the datasets that were analysed to
\* the end, without the failed and the incomplete ones, and the Bonferroni
\* threshold is alpha over their number.
C21_OnlySuccessfulCounted ==
    Aggregated =>
        LET successful == SelectSeq(Given, LAMBDA d : ~Failed(d) /\ ~Incomplete(d))
        IN  /\ [i \in 1..Len(results_df.rows) |-> results_df.rows[i].dataset_id]
                   = NamesOf(successful)
            /\ Stamped =>
                  \A i \in 1..Len(results_df.rows) :
                      results_df.rows[i].bonferroni_threshold.num * Len(successful)
                          = alpha * results_df.rows[i].bonferroni_threshold.den

\* C22: when the loop of a fresh run returns, it has gone through every
\* dataset, its results hold exactly the datasets that did not fail, in
\* order, and every failed dataset is in the error log.
C22_FailuresExcludedOthersKept ==
    (LoopDone /\ loop \in {"run_partitioned_heritability", "_run_optimized_ldsc_regression"}) =>
        /\ [i \in 1..Len(ldsc_results) |-> ldsc_results[i].dataset_id]
              = NamesOf(SelectSeq(datasets, LAMBDA d : ~Failed(d)))
        /\ error_log = NamesOf(SelectSeq(datasets, LAMBDA d : Failed(d)))

\* C21 amended: the batch that is corrected holds the datasets that did not
\* fail, in order, and the Bonferroni threshold is alpha over their number; a
\* dataset whose report has no total heritability line did not fail: it stays
\* in the batch with its fields unset and is counted.
C21_OnlyFailedLeftOut ==
    Aggregated =>
        LET kept == SelectSeq(Given, LAMBDA d : ~Failed(d))
        IN  /\ [i \in 1..Len(results_df.rows) |-> results_df.rows[i].dataset_id]
                   = NamesOf(kept)
            /\ Stamped =>
                  \A i \in 1..Len(results_df.rows) :
                      results_df.rows[i].bonferroni_threshold.num * Len(kept)
                          = alpha * results_df.rows[i].bonferroni_threshold.den

\* a corrected batch of two out of three datasets: one failed, and one of the
\* two that are counted has an incomplete report
C21_Witness ==
    /\ Aggregated /\ Stamped
    /\ Len(datasets) = 3
    /\ Len(results_df.rows) = 2
    /\ \E i \in 1..3 : Failed(datasets[i])
    /\ \E i \in 1..3 :
          /\ Incomplete(datasets[i]) /\ ~Failed(datasets[i])
          /\ \E j \in 1..2 : results_df.rows[j].dataset_id = datasets[i].name

----------------------------------------------------------------------------
(* Properties of repeated runs *)

\* C26: every run of the merge step records the same combined annotation,
\* the one the merge of the two input tables gives whatever was on disk
\* before, and every call of the parser on the report returns the same dict.
C26_RerunIdenticalInputsOnly ==
    /\ \A i \in 1..Len(combined_annotations) :
          /\ combined_annotations[i] = combined_annotations[1]
          /\ combined_annotations[i] = merge_outcome(baseline_file, enhancer_file).output_file
    /\ \A i \in 1..Len(parse_history) : parse_history[i] = parse_history[1]

====
